---- MODULE Spec2Model ----
(***************************************************************************)
(* Model of TradeEconomicsAnalyzer (src/trade_economics_analysis.py).      *)
(*                                                                         *)
(* Numbers.  Prices, costs and amounts are integers.  Timestamps are whole *)
(* hours on a clock on which TODAY is hour 2400.  Values the code computes *)
(* as floats are kept exact as scaled integers: a quartile as 4 times its  *)
(* value (pandas interpolates linearly, so a quartile of n integers is a   *)
(* multiple of 1/4), a zone threshold as 16 times its value, a ratio as a  *)
(* pair <<numerator, denominator>> with a positive denominator.  A float   *)
(* that may be NaN is a sequence: <<>> for NaN, <<x>> for the number x.    *)
(* exp() is a fixed-point table product with scale EXP_ONE.                *)
(***************************************************************************)
EXTENDS Integers, Sequences, FiniteSets, TLC

VARIABLES
    df,              \* self.df: the loaded trades, in file order
    all_shop_items,  \* self.all_shop_items: shard entries, then token entries
    group,           \* the DataFrame a statistical method is applied to
    call,            \* the method call made last, with its scalar arguments
    ret,             \* what that call returned
    roi_df,          \* the roi_df of the report and of main(), <<>> before it is computed
    fetcher,         \* the fetch script being run: its clock, self.last_request_time,
                     \* its position, and the times its last requests were issued
    pc               \* where main() is: the stage, and in generate_frontend_json
                     \* the shop entry and the window being processed

vars == <<df, all_shop_items, group, call, ret, roi_df, fetcher, pc>>

(***************************************************************************)
(* Bounds of the model.                                                    *)
(***************************************************************************)
MaxLen == 5          \* longest price sample handed to a statistical method
MaxIterLen == 6      \* longest sample the outlier filter is iterated on
MaxEwmaLen == 3      \* longest sample of the weighted median
MaxConfLen == 3      \* longest sample of the confidence comparison
MaxTrades == 3       \* most trades loaded into self.df
MaxRoiLen == 5       \* most trades of the ROI scenario
MaxWorseLen == 5     \* most trades of the item judged never worth buying
MaxImpactLen == 3    \* most trades around the game update, long samples apart
MaxWindowLen == 4    \* most trades of the samples analysed window by window
MaxTrendLen == 5     \* most trades of the samples whose trend is taken
MaxFetchItems == 2   \* most item names a fetch script is given
MaxFetchPages == 2   \* largest max_pages fetch_item_trades is called with
MaxLatency == 2      \* longest a request takes, in clock units
MaxDistLen == 3      \* most trades of the samples whose ROI distribution is taken
MaxRecLen == 6       \* most trades of the samples recommended on, long samples apart

(***************************************************************************)
(* Program constants.                                                      *)
(***************************************************************************)
TODAY == 2400                 \* datetime(2026, 1, 15), in hours
ANALYSIS_DAYS == 90
ALPHA_DEN == 10               \* alpha is ALPHA_NUM / ALPHA_DEN
EWMA_ALPHA == 3               \* 0.3
EXP_ONE == 10000              \* fixed-point 1.0 of exp()

NaN == <<>>
Num(x) == <<x>>
None == [op |-> "none"]

(***************************************************************************)
(* Sequence helpers.                                                       *)
(***************************************************************************)
RECURSIVE SumSeq(_)
SumSeq(s) == IF s = <<>> THEN 0 ELSE Head(s) + SumSeq(Tail(s))

RECURSIVE Pow(_, _)
Pow(b, e) == IF e = 0 THEN 1 ELSE b * Pow(b, e - 1)

Min2(a, b) == IF a <= b THEN a ELSE b
Max2(a, b) == IF a >= b THEN a ELSE b

MinSeq(s) == CHOOSE x \in {s[i] : i \in DOMAIN s} : \A j \in DOMAIN s : x <= s[j]
MaxSeq(s) == CHOOSE x \in {s[i] : i \in DOMAIN s} : \A j \in DOMAIN s : x >= s[j]

\* s (records with a key field k) with x inserted after every element whose
\* key is <= x's: a stable insert
RECURSIVE InsertK(_, _)
InsertK(x, s) ==
    IF s = <<>> THEN <<x>>
    ELSE IF Head(s).k <= x.k THEN <<Head(s)>> \o InsertK(x, Tail(s))
    ELSE <<x>> \o s

\* s sorted ascending by k, equal keys in their original order
RECURSIVE SortK(_)
SortK(s) ==
    IF s = <<>> THEN <<>>
    ELSE LET n == Len(s) IN InsertK(s[n], SortK(SubSeq(s, 1, n - 1)))

\* the values of sorted key-value records
Values(s) == [i \in DOMAIN s |-> s[i].v]

\* a sequence of integers sorted ascending
SortInts(ps) == Values(SortK([i \in DOMAIN ps |-> [k |-> ps[i], v |-> ps[i]]]))

Prices(g) == [i \in DOMAIN g |-> g[i].price]
Times(g) == [i \in DOMAIN g |-> g[i].time]
Amounts(g) == [i \in DOMAIN g |-> g[i].amount]

\* DataFrame.sort_values('time'): numpy sorts a short column by insertion, so
\* rows with equal times keep their order
sort_values(g) == Values(SortK([i \in DOMAIN g |-> [k |-> g[i].time, v |-> g[i]]]))

(***************************************************************************)
(* Series.quantile(k/4) and Series.median(): linear interpolation at the   *)
(* virtual index (n-1)*k/4 of the sorted prices.  Returns 4 * quantile.    *)
(***************************************************************************)
\* between the sorted values at 0-based lo and lo + 1 (the last one at most),
\* fr quarters of the way
interpolate4(s, lo, fr) ==
    4 * s[lo + 1] + fr * (s[Min2(lo + 2, Len(s))] - s[lo + 1])

quantile_sorted4(s, pos) == interpolate4(s, pos \div 4, pos % 4)

quantile4(ps, k) == quantile_sorted4(SortInts(ps), (Len(ps) - 1) * k)

median4(ps) == quantile4(ps, 2)

(***************************************************************************)
(* detect_and_clean_outliers: the rows whose price lies in                 *)
(* [Q1 - 3*IQR, Q3 + 3*IQR], in their order.  The quartiles of an empty    *)
(* column are NaN and every comparison with NaN is false, so the empty     *)
(* frame is returned as it is.                                             *)
(***************************************************************************)
lower_fence4(Q1, Q3) == Q1 - 3 * (Q3 - Q1)
\* the upper bound with the range subtracted
upper_fence4_minus(Q1, Q3) == Q3 - 3 * (Q3 - Q1)

upper_fence4(Q1, Q3) == Q3 + 3 * (Q3 - Q1)

lower_bound4(ps) == lower_fence4(quantile4(ps, 1), quantile4(ps, 3))
upper_bound4(ps) == upper_fence4(quantile4(ps, 1), quantile4(ps, 3))

\* group[(group[column] >= lower_bound) & (group[column] <= upper_bound)]
rows_between4(g, lo, hi) ==
    SelectSeq(g, LAMBDA t : 4 * t.price >= lo /\ 4 * t.price <= hi)

rows_strictly_between4(g, lo, hi) ==
    SelectSeq(g, LAMBDA t : 4 * t.price > lo /\ 4 * t.price < hi)

rows_tukey4(g, Q1, Q3) ==
    SelectSeq(g, LAMBDA t : /\ 8 * t.price >= 2 * Q1 - 3 * (Q3 - Q1)
                            /\ 8 * t.price <= 2 * Q3 + 3 * (Q3 - Q1))

\* Tukey's 1.5 * IQR fences instead of 3 * IQR
detect_and_clean_outliers_tukey(g) ==
    IF g = <<>> THEN g
    ELSE rows_tukey4(g, quantile4(Prices(g), 1), quantile4(Prices(g), 3))

\* strict comparisons with the bounds
detect_and_clean_outliers_strict(g) ==
    IF g = <<>> THEN g
    ELSE rows_strictly_between4(g, lower_bound4(Prices(g)), upper_bound4(Prices(g)))

detect_and_clean_outliers(g) ==
    IF g = <<>> THEN g
    ELSE rows_between4(g, lower_bound4(Prices(g)), upper_bound4(Prices(g)))

\* the callers' "if len(clean_group) == 0: clean_group = group"
or_original(clean_group, g) == IF Len(clean_group) = 0 THEN g ELSE clean_group

clean_or_original(g) == or_original(detect_and_clean_outliers(g), g)

(***************************************************************************)
(* calculate_ewma_median(group, alpha), alpha = a / ALPHA_DEN.  The weight *)
(* of the i-th oldest of n rows (i from 1) is (1 - alpha)^(n - i), held    *)
(* here as the integer (ALPHA_DEN - a)^(n - i) * ALPHA_DEN^(i - 1), that   *)
(* is, times ALPHA_DEN^(n - 1).  Dividing by weights.sum() is the          *)
(* comparison of twice the running sum with the total.  searchsorted       *)
(* returns the number of running sums below 0.5; an index past the end is  *)
(* Python's IndexError.                                                    *)
(***************************************************************************)
IndexError == -1    \* no price is negative

\* the recursive form with alpha taken as the retention factor: the oldest
\* row weighs alpha^(n - 1), the i-th oldest (1 - alpha) * alpha^(n - i)
ewma_weights_swapped(n, a) ==
    [i \in 1..n |->
        IF i = 1 THEN Pow(a, n - 1)
        ELSE (ALPHA_DEN - a) * Pow(a, n - i) * Pow(ALPHA_DEN, i - 2)]

ewma_weights(n, a) ==
    [i \in 1..n |-> Pow(ALPHA_DEN - a, n - i) * Pow(ALPHA_DEN, i - 1)]

RECURSIVE cumsum(_)
cumsum(w) ==
    IF w = <<>> THEN <<>>
    ELSE LET n == Len(w)
             c == cumsum(SubSeq(w, 1, n - 1))
         IN  Append(c, (IF n = 1 THEN 0 ELSE c[n - 1]) + w[n])

\* np.searchsorted(cumulative_weight, 0.5) of the normalized weights, in
\* ascending price order (0-based)
\* the index one past the crossing
weighted_median_index_off_by_one(sorted_weights) ==
    LET total == SumSeq(sorted_weights)
        cumulative_weight == cumsum(sorted_weights)
    IN  Cardinality({i \in DOMAIN sorted_weights : 2 * cumulative_weight[i] < total}) + 1

weighted_median_index(sorted_weights) ==
    LET total == SumSeq(sorted_weights)
        cumulative_weight == cumsum(sorted_weights)
    IN  Cardinality({i \in DOMAIN sorted_weights : 2 * cumulative_weight[i] < total})

\* the weights given in file order, the sample not sorted by time
calculate_ewma_median_file_order(g, a) ==
    IF Len(g) = 0 THEN 0
    ELSE LET prices == Prices(g)
             n == Len(prices)
             weights == ewma_weights(n, a)
             sorted_pairs == SortK([i \in 1..n |-> [k |-> prices[i], v |-> weights[i]]])
             median_idx == weighted_median_index([i \in 1..n |-> sorted_pairs[i].v])
         IN  IF median_idx >= n THEN IndexError
             ELSE sorted_pairs[median_idx + 1].k

calculate_ewma_median(g, a) ==
    IF Len(g) = 0 THEN 0
    ELSE LET sorted_group == sort_values(g)
             prices == Prices(sorted_group)
             n == Len(prices)
             weights == ewma_weights(n, a)
             sorted_pairs == SortK([i \in 1..n |-> [k |-> prices[i], v |-> weights[i]]])
             median_idx == weighted_median_index([i \in 1..n |-> sorted_pairs[i].v])
         IN  IF median_idx >= n THEN IndexError
             ELSE sorted_pairs[median_idx + 1].k

(***************************************************************************)
(* calculate_purchase_zones: the five thresholds, each 16 times its value. *)
(***************************************************************************)
NoZones == [excellent |-> 0, good |-> 0, fair |-> 0, overpriced |-> 0, avoid |-> 0]

zones_of_quartiles(Q1, Q2, Q3) ==
    [excellent |-> 4 * Q1,
     good |-> 4 * Q2 - (Q3 - Q1),
     fair |-> 4 * Q2 + (Q3 - Q1),
     overpriced |-> 4 * Q3,
     avoid |-> 4 * Q3 + 2 * (Q3 - Q1)]

zones_of_prices(ps) ==
    zones_of_quartiles(quantile4(ps, 1), quantile4(ps, 2), quantile4(ps, 3))

calculate_purchase_zones(g, shop_cost) ==
    IF Len(g) = 0 THEN NoZones
    ELSE zones_of_prices(Prices(clean_or_original(g)))

(***************************************************************************)
(* np.exp(-k/50) in fixed point: EXP_ONE times the value, the product of   *)
(* e^(-2a), e^(-b/5) and e^(-c/50) for k = 100a + 10b + c, each rounded to *)
(* the nearest 1/EXP_ONE; within 1/EXP_ONE of the true value.              *)
(***************************************************************************)
EXP_HUNDREDS == <<10000, 1353, 183, 25, 3>>
EXP_TENS == <<10000, 8187, 6703, 5488, 4493, 3679, 3012, 2466, 2019, 1653>>
EXP_UNITS == <<10000, 9802, 9608, 9418, 9231, 9048, 8869, 8694, 8521, 8353>>

MulRound(x, y) == ((x * y) + (EXP_ONE \div 2)) \div EXP_ONE

ExpNeg50(k) ==
    IF k >= 500 THEN 0
    ELSE MulRound(MulRound(EXP_HUNDREDS[(k \div 100) + 1], EXP_TENS[((k % 100) \div 10) + 1]),
                  EXP_UNITS[(k % 10) + 1])

\* floor of the square root, bit by bit
RECURSIVE ISqrtBits(_, _, _)
ISqrtBits(x, r, b) ==
    IF b = 0 THEN r
    ELSE IF (r + b) * (r + b) <= x THEN ISqrtBits(x, r + b, b \div 2)
    ELSE ISqrtBits(x, r, b \div 2)
ISqrt(x) == ISqrtBits(x, 0, 16384)

(***************************************************************************)
(* Column statistics.  mean = SumSeq / n.  std() has ddof = 1: NaN for a   *)
(* single row, else sqrt(D / (n (n - 1))) with D = n * sum(p^2) - sum(p)^2.*)
(***************************************************************************)
SumSq(ps) == SumSeq([i \in DOMAIN ps |-> ps[i] * ps[i]])
DevD(ps) == Len(ps) * SumSq(ps) - SumSeq(ps) * SumSeq(ps)

\* (max - min).days or 1
days_active(g) ==
    LET d == (MaxSeq(Times(g)) - MinSeq(Times(g))) \div 24
    IN  IF d = 0 THEN 1 ELSE d

\* cv of calculate_confidence_score: std / mean * 100 when mean > 0, else
\* 100.  The ratio <<num, den>> stands for cv = 100 * sqrt(num / den), so
\* that equal cv's are equal ratios; NaN for one row of positive price.
confidence_cv(ps) ==
    LET n == Len(ps)
        S == SumSeq(ps)
    IN  IF S > 0
        THEN IF n = 1 THEN NaN
             ELSE <<n * DevD(ps), (n - 1) * S * S>>
        ELSE <<1, 1>>

\* len // 50 in place of len / 50
sample_score_floordiv(clean_group) ==
    40 * (EXP_ONE - ExpNeg50(50 * (Len(clean_group) \div 50)))

sample_score(clean_group) == 40 * (EXP_ONE - ExpNeg50(Len(clean_group)))

\* 30 * np.exp(-cv / 50)
volatility_of_cv(cv) ==
    IF cv = NaN THEN NaN
    ELSE Num(30 * ExpNeg50(ISqrt((10000 * cv[1]) \div cv[2])))

volatility_score(clean_group) == volatility_of_cv(confidence_cv(Prices(clean_group)))

liquidity_score(clean_group) ==
    30 * (EXP_ONE - ExpNeg50((25 * Len(clean_group)) \div days_active(clean_group)))

\* min(100, max(0, total_score)): Python's max keeps its first argument
\* unless a later one compares greater, and NaN never does
clamp_score(total_score) ==
    IF total_score = NaN THEN 0
    ELSE Min2(100 * EXP_ONE, Max2(0, total_score[1]))

\* sample_score + volatility_score + liquidity_score: NaN when a term is
add_scores(s, v, l) == IF v = NaN THEN NaN ELSE Num(s + v[1] + l)

total_score(clean_group) ==
    add_scores(sample_score(clean_group), volatility_score(clean_group),
               liquidity_score(clean_group))

\* the score times EXP_ONE
calculate_confidence_score(g, shop_cost) ==
    IF Len(g) = 0 THEN 0
    ELSE clamp_score(total_score(clean_or_original(g)))

(***************************************************************************)
(* Ratios.  <<n, d>> with d > 0 is n / d; <<1, 0>> and <<-1, 0>> are the   *)
(* floats inf and -inf, NaN is <<>>.                                       *)
(***************************************************************************)
Ratio(n, d) == IF d < 0 THEN <<-n, -d>> ELSE <<n, d>>
Inf == <<1, 0>>
NegInf == <<-1, 0>>
IsFinite(r) == Len(r) = 2 /\ r[2] > 0
RLess(r, q) == r[1] * q[2] < q[1] * r[2]

\* numpy's float division x / c for a finite x = n / d and an integer c
DivByInt(x, c) ==
    IF c = 0
    THEN IF x[1] > 0 THEN Inf ELSE IF x[1] < 0 THEN NegInf ELSE NaN
    ELSE Ratio(x[1], x[2] * c)

\* ((price - shop_cost) / shop_cost) * 100 for a price n / d
roi_of(price, shop_cost) ==
    LET q == DivByInt(<<price[1] - shop_cost * price[2], price[2]>>, shop_cost)
    IN  IF IsFinite(q) THEN <<100 * q[1], q[2]>> ELSE q

\* round(x, decimals) of a finite ratio, as the integer x * Scale rounded
\* half to even
RoundScaled(r, Scale) ==
    LET n == r[1] * Scale
        q == IF n >= 0 THEN n \div r[2] ELSE -((-n + r[2] - 1) \div r[2])
        twice == 2 * (n - q * r[2])
    IN  IF twice > r[2] THEN q + 1
        ELSE IF twice < r[2] THEN q
        ELSE IF q % 2 = 0 THEN q ELSE q + 1

(***************************************************************************)
(* TIME_WINDOWS: the lookback in hours, <<>> for None.                     *)
(***************************************************************************)
WindowNames == {"1h", "24h", "7d", "30d", "all"}
\* the windows with the days of '7d' and '30d' taken as hours
TIME_WINDOWS_days_as_hours ==
    [w \in WindowNames |->
        CASE w = "1h" -> <<1>>
          [] w = "24h" -> <<24>>
          [] w = "7d" -> <<7>>
          [] w = "30d" -> <<30>>
          [] w = "all" -> <<>>]

TIME_WINDOWS ==
    [w \in WindowNames |->
        CASE w = "1h" -> <<1>>
          [] w = "24h" -> <<24>>
          [] w = "7d" -> <<7 * 24>>
          [] w = "30d" -> <<30 * 24>>
          [] w = "all" -> <<>>]

\* the selection with the item test left out of the windowed branch
window_trades_any_item(trades, item_id, window_delta) ==
    IF window_delta = <<>>
    THEN SelectSeq(trades, LAMBDA t : t.item_id = item_id)
    ELSE SelectSeq(trades, LAMBDA t : t.time >= TODAY - window_delta[1])

\* the windowed selection with a cutoff that is not itself in the window
window_trades_after_cutoff(trades, item_id, window_delta) ==
    IF window_delta = <<>>
    THEN SelectSeq(trades, LAMBDA t : t.item_id = item_id)
    ELSE SelectSeq(trades,
                   LAMBDA t : t.item_id = item_id /\ t.time > TODAY - window_delta[1])

\* the rows analyze_time_window selects from self.df
window_trades(trades, item_id, window_delta) ==
    IF window_delta = <<>>
    THEN SelectSeq(trades, LAMBDA t : t.item_id = item_id)
    ELSE SelectSeq(trades,
                   LAMBDA t : t.item_id = item_id /\ t.time >= TODAY - window_delta[1])

NoData ==
    [has_data |-> FALSE,
     trade_count |-> 0,
     median_price |-> 0,
     ewma_median |-> 0,
     roi |-> -100,
     recommendation |-> <<"NO DATA">>,
     confidence |-> 0,
     zones |-> NoZones]

\* the ladder with the zone tests before the ROI tests
recommendation_of_zones_first(roi, ewma_median, zones) ==
    IF 16 * ewma_median <= zones.excellent
        THEN <<"BUY NOW - Excellent price (<", RoundScaled(<<zones.excellent, 16>>, 1)>>
    ELSE IF RLess(roi, <<-15, 1>>) THEN <<"AVOID - Loss %", RoundScaled(roi, 10)>>
    ELSE IF RLess(roi, <<0, 1>>) THEN <<"MARGINAL - Break even difficult">>
    ELSE IF 16 * ewma_median <= zones.good
        THEN <<"BUY if <", RoundScaled(<<zones.good, 16>>, 1)>>
    ELSE IF 16 * ewma_median <= zones.fair
        THEN <<"FAIR if <", RoundScaled(<<zones.fair, 16>>, 1)>>
    ELSE <<"WAIT - Overpriced (fair <", RoundScaled(<<zones.fair, 16>>, 1)>>

\* the label and the number formatted into it: roi to one decimal (in
\* tenths), a zone threshold to no decimal
recommendation_of(roi, ewma_median, zones) ==
    IF RLess(roi, <<-15, 1>>) THEN <<"AVOID - Loss %", RoundScaled(roi, 10)>>
    ELSE IF RLess(roi, <<0, 1>>) THEN <<"MARGINAL - Break even difficult">>
    ELSE IF 16 * ewma_median <= zones.excellent
        THEN <<"BUY NOW - Excellent price (<", RoundScaled(<<zones.excellent, 16>>, 1)>>
    ELSE IF 16 * ewma_median <= zones.good
        THEN <<"BUY if <", RoundScaled(<<zones.good, 16>>, 1)>>
    ELSE IF 16 * ewma_median <= zones.fair
        THEN <<"FAIR if <", RoundScaled(<<zones.fair, 16>>, 1)>>
    ELSE <<"WAIT - Overpriced (fair <", RoundScaled(<<zones.fair, 16>>, 1)>>

\* ((ewma_median - shop_cost) / shop_cost * 100) if shop_cost > 0 else -100
window_roi(ewma_median, shop_cost) ==
    IF shop_cost > 0 THEN roi_of(<<ewma_median, 1>>, shop_cost) ELSE <<-100, 1>>

\* median_price, q1 and q3 are 4 times their values, roi a ratio (or the
\* integer -100), zones 16 times theirs, confidence EXP_ONE times its value
window_result(trades, clean_trades, shop_cost, ewma_median, zones) ==
    [has_data |-> TRUE,
     trade_count |-> Len(trades),
     median_price |-> median4(Prices(clean_trades)),
     ewma_median |-> ewma_median,
     roi |-> window_roi(ewma_median, shop_cost),
     recommendation |-> recommendation_of(window_roi(ewma_median, shop_cost),
                                          ewma_median, zones),
     confidence |-> calculate_confidence_score(clean_trades, shop_cost),
     zones |-> zones,
     q1 |-> quantile4(Prices(clean_trades), 1),
     q3 |-> quantile4(Prices(clean_trades), 3),
     min_price |-> MinSeq(Prices(clean_trades)),
     max_price |-> MaxSeq(Prices(clean_trades))]

analyze_clean_trades(trades, clean_trades, shop_cost) ==
    window_result(trades, clean_trades, shop_cost,
                  calculate_ewma_median(clean_trades, EWMA_ALPHA),
                  calculate_purchase_zones(clean_trades, shop_cost))

analyze_trades(trades, shop_cost) ==
    IF Len(trades) = 0 THEN NoData
    ELSE analyze_clean_trades(trades, clean_or_original(trades), shop_cost)

analyze_time_window(trades_df, item_id, shop_cost, window_delta) ==
    analyze_trades(window_trades(trades_df, item_id, window_delta), shop_cost)

(***************************************************************************)
(* generate_frontend_json: the record written for one window.  Rounded     *)
(* values are integers: prices, roi and zones in hundredths, confidence in *)
(* tenths.                                                                 *)
(***************************************************************************)
frontend_window(analysis) ==
    LET has == analysis.has_data
        Zone(z) == IF has THEN RoundScaled(<<z, 16>>, 100) ELSE 0
    IN  [has_data |-> has,
         trades |-> analysis.trade_count,
         median_price |-> IF has THEN RoundScaled(<<analysis.median_price, 4>>, 100) ELSE 0,
         weighted_median |-> IF has THEN 100 * analysis.ewma_median ELSE 0,
         roi |-> IF has THEN RoundScaled(analysis.roi, 100) ELSE -100,
         recommendation |-> analysis.recommendation,
         confidence |-> IF has THEN RoundScaled(<<analysis.confidence, EXP_ONE>>, 10) ELSE 0,
         zones |-> [excellent |-> Zone(analysis.zones.excellent),
                    good |-> Zone(analysis.zones.good),
                    fair |-> Zone(analysis.zones.fair),
                    overpriced |-> Zone(analysis.zones.overpriced),
                    avoid |-> Zone(analysis.zones.avoid)]]

(***************************************************************************)
(* _build_shop_data: one entry per shard item, then one per token item.    *)
(***************************************************************************)
ShopItem(i, c) == [item_id |-> i, value |-> c]

build_shop_data(shard_shop, token_shop) ==
    [i \in DOMAIN shard_shop |->
        [item_id |-> shard_shop[i].item_id, cost |-> shard_shop[i].value,
         currency |-> "Blood Shards", currency_id |-> 1]]
    \o
    [i \in DOMAIN token_shop |->
        [item_id |-> token_shop[i].item_id, cost |-> token_shop[i].value,
         currency |-> "Blood Synthesis Tokens", currency_id |-> 0]]

\* filter_recent_trades: days_ago <= days
filter_recent_trades(trades_df, days) ==
    SelectSeq(trades_df, LAMBDA t : TODAY - t.time <= 24 * days)

(***************************************************************************)
(* calculate_comprehensive_roi.  Float fields are ratios; std_price        *)
(* <<n, d>> stands for sqrt(n / d) and volatility_cv <<n, d>> for          *)
(* 100 * sqrt(n / d).                                                      *)
(***************************************************************************)
Mean(ps) == <<SumSeq(ps), Len(ps)>>

\* the middle element, with no averaging for an even count
price_median_upper(clean_group) ==
    LET s == SortInts(Prices(clean_group))
    IN  <<s[(Len(s) \div 2) + 1], 1>>

\* clean_group['price'].median()
price_median(clean_group) == <<median4(Prices(clean_group)), 4>>

\* clean_group['price'].std()
price_std(clean_group) ==
    LET n == Len(clean_group)
    IN  IF n = 1 THEN NaN ELSE <<DevD(Prices(clean_group)), n * (n - 1)>>

\* (std_price / avg_price * 100) if avg_price > 0 else 0
roi_cv(clean_group) ==
    LET n == Len(clean_group)
        S == SumSeq(Prices(clean_group))
    IN  IF S > 0
        THEN IF n = 1 THEN NaN ELSE <<n * DevD(Prices(clean_group)), (n - 1) * S * S>>
        ELSE <<0, 1>>

\* ((b - a) / a * 100) if a > 0 else 0, for means a and b
pct_change(a, b) ==
    IF a[1] > 0
    THEN Ratio(100 * (b[1] * a[2] - a[1] * b[2]), a[1] * b[2])
    ELSE <<0, 1>>

\* the quarters all of quarter_size rows, the rows past the fourth left out
price_trends_equal_quarters(sorted_group) ==
    LET n == Len(sorted_group)
        ps == Prices(sorted_group)
        Chunk(lo, hi) == Mean(SubSeq(ps, lo, hi))
    IN  IF n >= 4
        THEN LET quarter_size == n \div 4
                 q1_avg == Chunk(1, quarter_size)
                 q2_avg == Chunk(quarter_size + 1, quarter_size * 2)
                 q3_avg == Chunk(quarter_size * 2 + 1, quarter_size * 3)
                 q4_avg == Chunk(quarter_size * 3 + 1, quarter_size * 4)
             IN  [q1_q2 |-> pct_change(q1_avg, q2_avg),
                  q2_q3 |-> pct_change(q2_avg, q3_avg),
                  q3_q4 |-> pct_change(q3_avg, q4_avg),
                  overall |-> pct_change(q1_avg, q4_avg)]
        ELSE LET half_point == n \div 2
                 first_half == IF half_point > 0 THEN Chunk(1, half_point) ELSE Mean(ps)
                 second_half == IF half_point > 0 THEN Chunk(half_point + 1, n) ELSE Mean(ps)
             IN  [q1_q2 |-> <<0, 1>>,
                  q2_q3 |-> <<0, 1>>,
                  q3_q4 |-> <<0, 1>>,
                  overall |-> pct_change(first_half, second_half)]

\* the quarters split taken from three records on: with three records the
\* first three chunks are empty, their means NaN, and every change is 0
price_trends_quarters_from_three(sorted_group) ==
    IF Len(sorted_group) = 3
    THEN [q1_q2 |-> <<0, 1>>, q2_q3 |-> <<0, 1>>, q3_q4 |-> <<0, 1>>,
          overall |-> <<0, 1>>]
    ELSE price_trends_equal_quarters(sorted_group)

price_trends(sorted_group) ==
    LET n == Len(sorted_group)
        ps == Prices(sorted_group)
        Chunk(lo, hi) == Mean(SubSeq(ps, lo, hi))
    IN  IF n >= 4
        THEN LET quarter_size == n \div 4
                 q1_avg == Chunk(1, quarter_size)
                 q2_avg == Chunk(quarter_size + 1, quarter_size * 2)
                 q3_avg == Chunk(quarter_size * 2 + 1, quarter_size * 3)
                 q4_avg == Chunk(quarter_size * 3 + 1, n)
             IN  [q1_q2 |-> pct_change(q1_avg, q2_avg),
                  q2_q3 |-> pct_change(q2_avg, q3_avg),
                  q3_q4 |-> pct_change(q3_avg, q4_avg),
                  overall |-> pct_change(q1_avg, q4_avg)]
        ELSE LET half_point == n \div 2
                 first_half == IF half_point > 0 THEN Chunk(1, half_point) ELSE Mean(ps)
                 second_half == IF half_point > 0 THEN Chunk(half_point + 1, n) ELSE Mean(ps)
             IN  [q1_q2 |-> <<0, 1>>,
                  q2_q3 |-> <<0, 1>>,
                  q3_q4 |-> <<0, 1>>,
                  overall |-> pct_change(first_half, second_half)]

\* clean_group[clean_group['price'] < shop_cost]
\* the losing trades with those priced at the shop cost among them
loss_trades_of_at_most(clean_group, shop_cost) ==
    SelectSeq(clean_group, LAMBDA t : t.price <= shop_cost)

loss_trades_of(clean_group, shop_cost) ==
    SelectSeq(clean_group, LAMBDA t : t.price < shop_cost)

\* the mean loss, 0 without a losing trade
avg_loss_pct_of(loss_trades, shop_cost) ==
    IF Len(loss_trades) > 0
    THEN roi_of(Mean(Prices(loss_trades)), shop_cost)
    ELSE <<0, 1>>

active_fields(shop_item, grp, clean_group, ps, trends, days) ==
    [item_id |-> shop_item.item_id,
     currency |-> shop_item.currency,
     shop_cost |-> shop_item.cost,
     avg_price |-> Mean(ps),
     median_price |-> price_median(clean_group),
     std_price |-> price_std(clean_group),
     min_price |-> MinSeq(ps),
     max_price |-> MaxSeq(ps),
     p25_price |-> <<quantile4(ps, 1), 4>>,
     p75_price |-> <<quantile4(ps, 3), 4>>,
     roi_avg |-> roi_of(Mean(ps), shop_item.cost),
     roi_median |-> roi_of(price_median(clean_group), shop_item.cost),
     roi_min |-> roi_of(<<MinSeq(ps), 1>>, shop_item.cost),
     roi_max |-> roi_of(<<MaxSeq(ps), 1>>, shop_item.cost),
     volatility_cv |-> roi_cv(clean_group),
     price_trend_overall |-> trends.overall,
     price_trend_q1_q2 |-> trends.q1_q2,
     price_trend_q2_q3 |-> trends.q2_q3,
     price_trend_q3_q4 |-> trends.q3_q4,
     trade_count |-> Len(grp),
     outliers_removed |-> Len(grp) - Len(clean_group),
     total_volume |-> SumSeq(Amounts(clean_group)),
     liquidity_score |-> <<Len(grp), days>>,
     days_active |-> days,
     break_even_probability |->
         <<100 * Len(SelectSeq(clean_group, LAMBDA t : t.price > shop_item.cost)),
           Len(clean_group)>>,
     avg_loss_pct |-> avg_loss_pct_of(loss_trades_of(clean_group, shop_item.cost),
                                      shop_item.cost),
     has_trades |-> TRUE]

active_of_sorted(shop_item, grp, clean_group, sorted_group) ==
    active_fields(shop_item, grp, clean_group, Prices(clean_group),
                  price_trends(sorted_group), days_active(sorted_group))

active_of_clean(shop_item, grp, clean_group) ==
    active_of_sorted(shop_item, grp, clean_group, sort_values(clean_group))

\* the record of a shop entry with trades
active_record(shop_item, grp) == active_of_clean(shop_item, grp, clean_or_original(grp))

\* a dead record whose ROI fields are 0
dead_record_zero_roi(shop_item) ==
    [item_id |-> shop_item.item_id,
     currency |-> shop_item.currency,
     shop_cost |-> shop_item.cost,
     avg_price |-> <<0, 1>>,
     median_price |-> <<0, 1>>,
     std_price |-> <<0, 1>>,
     min_price |-> 0,
     max_price |-> 0,
     p25_price |-> <<0, 1>>,
     p75_price |-> <<0, 1>>,
     roi_avg |-> <<0, 1>>,
     roi_median |-> <<0, 1>>,
     roi_min |-> <<0, 1>>,
     roi_max |-> <<0, 1>>,
     volatility_cv |-> <<0, 1>>,
     price_trend_overall |-> <<0, 1>>,
     price_trend_q1_q2 |-> <<0, 1>>,
     price_trend_q2_q3 |-> <<0, 1>>,
     price_trend_q3_q4 |-> <<0, 1>>,
     trade_count |-> 0,
     outliers_removed |-> 0,
     total_volume |-> 0,
     liquidity_score |-> <<0, 1>>,
     days_active |-> 0,
     break_even_probability |-> <<0, 1>>,
     avg_loss_pct |-> <<-100, 1>>,
     has_trades |-> FALSE]

\* the record of a shop entry without trades
dead_record(shop_item) ==
    [item_id |-> shop_item.item_id,
     currency |-> shop_item.currency,
     shop_cost |-> shop_item.cost,
     avg_price |-> <<0, 1>>,
     median_price |-> <<0, 1>>,
     std_price |-> <<0, 1>>,
     min_price |-> 0,
     max_price |-> 0,
     p25_price |-> <<0, 1>>,
     p75_price |-> <<0, 1>>,
     roi_avg |-> <<-100, 1>>,
     roi_median |-> <<-100, 1>>,
     roi_min |-> <<-100, 1>>,
     roi_max |-> <<-100, 1>>,
     volatility_cv |-> <<0, 1>>,
     price_trend_overall |-> <<0, 1>>,
     price_trend_q1_q2 |-> <<0, 1>>,
     price_trend_q2_q3 |-> <<0, 1>>,
     price_trend_q3_q4 |-> <<0, 1>>,
     trade_count |-> 0,
     outliers_removed |-> 0,
     total_volume |-> 0,
     liquidity_score |-> <<0, 1>>,
     days_active |-> 0,
     break_even_probability |-> <<0, 1>>,
     avg_loss_pct |-> <<-100, 1>>,
     has_trades |-> FALSE]

\* trade_lookup[item_id]: the rows of the item, as groupby('item_id') gives
trade_lookup(trades_df, item_id) ==
    SelectSeq(trades_df, LAMBDA t : t.item_id = item_id)

record_of(shop_item, grp) ==
    IF Len(grp) > 0 THEN active_record(shop_item, grp) ELSE dead_record(shop_item)

\* the records kept by item id: every entry of an item gets the record of
\* the item's first entry
calculate_comprehensive_roi_by_item(trades_df, shop_items) ==
    [i \in DOMAIN shop_items |->
        record_of(shop_items[CHOOSE k \in DOMAIN shop_items :
                      /\ shop_items[k].item_id = shop_items[i].item_id
                      /\ \A j \in 1..(k - 1) :
                          shop_items[j].item_id # shop_items[i].item_id],
                  trade_lookup(trades_df, shop_items[i].item_id))]

calculate_comprehensive_roi(trades_df, shop_items) ==
    [i \in DOMAIN shop_items |->
        record_of(shop_items[i], trade_lookup(trades_df, shop_items[i].item_id))]

(***************************************************************************)
(* Float arithmetic on ratios, exact: sums are reduced to lowest terms.    *)
(* inf - inf and every operation on NaN give NaN; a comparison with NaN is *)
(* false.                                                                  *)
(***************************************************************************)
RECURSIVE GCD(_, _)
GCD(a, b) == IF b = 0 THEN a ELSE GCD(b, a % b)

RAbsInt(x) == IF x < 0 THEN -x ELSE x

RNorm(r) ==
    IF r = NaN THEN NaN
    ELSE IF r[2] = 0 THEN r
    ELSE <<r[1] \div GCD(RAbsInt(r[1]), r[2]), r[2] \div GCD(RAbsInt(r[1]), r[2])>>

RAbs(r) == IF r = NaN THEN NaN ELSE <<RAbsInt(r[1]), r[2]>>

RAdd(r, q) ==
    IF r = NaN \/ q = NaN THEN NaN
    ELSE IF r[2] = 0 /\ q[2] = 0 THEN (IF r[1] = q[1] THEN r ELSE NaN)
    ELSE IF r[2] = 0 THEN r
    ELSE IF q[2] = 0 THEN q
    ELSE RNorm(<<r[1] * q[2] + q[1] * r[2], r[2] * q[2]>>)

\* k * r for an integer k > 0
RScale(k, r) == IF r = NaN THEN NaN ELSE RNorm(<<k * r[1], r[2]>>)

\* r < q as floats
FLess(r, q) == r # NaN /\ q # NaN /\ r[1] * q[2] < q[1] * r[2]

\* equality of two finite ratios
REq(r, q) == r[1] * q[2] = q[1] * r[2]

\* r >= q as floats
FGeq(r, q) == r # NaN /\ q # NaN /\ r[1] * q[2] >= q[1] * r[2]

(***************************************************************************)
(* identify_exponentially_worse_items(roi_df).  severity_score is 10 times *)
(* its value.                                                              *)
(***************************************************************************)
\* the mask without the trade_count >= 3 condition
never_worth_mask_any_count(r) ==
    \/ r.has_trades = FALSE
    \/ 4 * r.max_price < 3 * r.shop_cost
    \/ /\ FLess(r.roi_median, <<-25, 1>>)
       /\ FLess(r.break_even_probability, <<10, 1>>)
       /\ r.trade_count >= 5

\* the row mask of never_worth
never_worth_mask(r) ==
    \/ r.has_trades = FALSE
    \/ (4 * r.max_price < 3 * r.shop_cost /\ r.trade_count >= 3)
    \/ /\ FLess(r.roi_median, <<-25, 1>>)
       /\ FLess(r.break_even_probability, <<10, 1>>)
       /\ r.trade_count >= 5

severity_score(r) ==
    RAdd(RAdd(RScale(4, RAbs(r.roi_median)),
              RScale(3, RAdd(<<100, 1>>, <<-r.break_even_probability[1],
                                           r.break_even_probability[2]>>))),
         RAdd(RScale(2, RAbs(r.price_trend_overall)), <<r.shop_cost, 1>>))

\* the category assigned by has_trades alone
category_of_no_upgrade(r) == IF r.has_trades THEN "EXTREMELY BAD" ELSE "DEAD"

\* 'DEAD', then 'EXTREMELY BAD' where has_trades, then 'VERY BAD' where
\* has_trades and break_even_probability > 5
category_of(r) ==
    IF r.has_trades /\ FLess(<<5, 1>>, r.break_even_probability) THEN "VERY BAD"
    ELSE IF r.has_trades THEN "EXTREMELY BAD"
    ELSE "DEAD"

\* a flagged row: the record with its two added columns
never_worth_row(r) ==
    [row |-> r, severity_score |-> severity_score(r), category |-> category_of(r)]

\* s (sorted descending by severity_score) with x placed after the rows
\* that are not smaller
RECURSIVE InsertDesc(_, _)
InsertDesc(x, s) ==
    IF s = <<>> THEN <<x>>
    ELSE IF FLess(Head(s).severity_score, x.severity_score) THEN <<x>> \o s
    ELSE <<Head(s)>> \o InsertDesc(x, Tail(s))

RECURSIVE SortDesc(_)
SortDesc(s) ==
    IF s = <<>> THEN <<>>
    ELSE InsertDesc(s[Len(s)], SortDesc(SubSeq(s, 1, Len(s) - 1)))

\* sort_values('severity_score', ascending=False): rows with a NaN score
\* last, equal scores in their order in the frame
sort_by_severity(rows) ==
    SortDesc(SelectSeq(rows, LAMBDA x : x.severity_score # NaN))
    \o SelectSeq(rows, LAMBDA x : x.severity_score = NaN)

never_worth_rows(flagged) ==
    sort_by_severity([i \in DOMAIN flagged |-> never_worth_row(flagged[i])])

identify_exponentially_worse_items(frame) ==
    never_worth_rows(SelectSeq(frame, never_worth_mask))

(***************************************************************************)
(* analyze_roi_distribution(roi_df), called on the rows of one currency.   *)
(***************************************************************************)
Currencies == <<"Blood Shards", "Blood Synthesis Tokens">>

\* roi_df[roi_df['currency'] == currency]
currency_roi(frame, currency) == SelectSeq(frame, LAMBDA r : r.currency = currency)

active_items_of(frame) == SelectSeq(frame, LAMBDA r : r.has_trades = TRUE)
dead_items_of(frame) == SelectSeq(frame, LAMBDA r : r.has_trades = FALSE)

\* s (floats sorted ascending) with x inserted
RECURSIVE InsertRatio(_, _)
InsertRatio(x, s) ==
    IF s = <<>> THEN <<x>>
    ELSE IF FLess(x, Head(s)) THEN <<x>> \o s
    ELSE <<Head(s)>> \o InsertRatio(x, Tail(s))

RECURSIVE SortRatios(_)
SortRatios(s) ==
    IF s = <<>> THEN <<>>
    ELSE InsertRatio(s[Len(s)], SortRatios(SubSeq(s, 1, Len(s) - 1)))

\* the roi_median column without its NaN values, sorted: what quantile()
\* interpolates in
roi_median_sorted(active_items) ==
    SortRatios(SelectSeq([i \in DOMAIN active_items |-> active_items[i].roi_median],
                         LAMBDA r : r # NaN))

\* a + (b - a) * fr / 4 for finite a and b
lerp4(a, b, fr) == RAdd(a, RNorm(<<fr * (b[1] * a[2] - a[1] * b[2]), 4 * a[2] * b[2]>>))

\* the values quantile() can give between a and b: the interpolation when
\* both are finite; with an infinite one numpy's a + (b - a) * t is inf or,
\* through inf - inf and inf * 0, NaN
lerp_outcomes(a, b, fr) == IF IsFinite(a) /\ IsFinite(b) THEN {lerp4(a, b, fr)} ELSE {NaN, b}

quantile_outcomes_at(s, pos) ==
    lerp_outcomes(s[pos \div 4 + 1], s[Min2(pos \div 4 + 2, Len(s))], pos % 4)

\* Series.quantile(k / 4): NaN for an empty column
quantile_outcomes(s, k) ==
    IF s = <<>> THEN {NaN} ELSE quantile_outcomes_at(s, (Len(s) - 1) * k)

\* 'profit_categories', keyed by the names of the bands
profit_categories(active_items) ==
    [high_profit |-> Len(SelectSeq(active_items, LAMBDA r : FLess(<<100, 1>>, r.roi_median))),
     good_profit |-> Len(SelectSeq(active_items, LAMBDA r :
                         FGeq(r.roi_median, <<50, 1>>) /\ FGeq(<<100, 1>>, r.roi_median))),
     modest_profit |-> Len(SelectSeq(active_items, LAMBDA r :
                         FGeq(r.roi_median, <<10, 1>>) /\ FLess(r.roi_median, <<50, 1>>))),
     break_even |-> Len(SelectSeq(active_items, LAMBDA r :
                         FGeq(r.roi_median, <<0, 1>>) /\ FLess(r.roi_median, <<10, 1>>))),
     small_loss |-> Len(SelectSeq(active_items, LAMBDA r :
                         FGeq(r.roi_median, <<-25, 1>>) /\ FLess(r.roi_median, <<0, 1>>))),
     large_loss |-> Len(SelectSeq(active_items, LAMBDA r : FLess(r.roi_median, <<-25, 1>>)))]

distribution_of(frame, active_items, Q1, Q2, Q3) ==
    [total_items |-> Len(frame),
     active_items |-> Len(active_items),
     dead_items |-> Len(dead_items_of(frame)),
     roi_quartiles |-> [Q1 |-> Q1, Q2 |-> Q2, Q3 |-> Q3],
     profit_categories |-> profit_categories(active_items)]

\* the dicts analyze_roi_distribution can return
analyze_roi_distribution(frame) ==
    {distribution_of(frame, active_items_of(frame), Q1, Q2, Q3) :
        Q1 \in quantile_outcomes(roi_median_sorted(active_items_of(frame)), 1),
        Q2 \in quantile_outcomes(roi_median_sorted(active_items_of(frame)), 2),
        Q3 \in quantile_outcomes(roi_median_sorted(active_items_of(frame)), 3)}

(***************************************************************************)
(* generate_investment_recommendations(roi_df).  volatility_cv is kept as  *)
(* the ratio x with volatility_cv = 100 * sqrt(x), so performance_score is *)
(* kept as its two parts: rational - 5 * sqrt(root).                       *)
(***************************************************************************)
\* r * n / d
RMulFrac(r, n, d) ==
    IF r = NaN THEN NaN ELSE IF r[2] = 0 THEN r ELSE RNorm(<<r[1] * n, r[2] * d>>)

RSub(r, q) == IF q = NaN THEN NaN ELSE RAdd(r, <<-q[1], q[2]>>)

RMul(r, q) == RNorm(<<r[1] * q[1], r[2] * q[2]>>)

performance_score(r) ==
    IF r.volatility_cv = NaN \/ r.roi_median = NaN THEN NaN
    ELSE [rational |-> RAdd(RAdd(RMulFrac(r.roi_median, 7, 20),
                                 RMulFrac(r.break_even_probability, 1, 4)),
                            RAdd(RMulFrac(r.liquidity_score, 5, 1),
                                 RMulFrac(r.price_trend_overall, 1, 10))),
          root |-> RNorm(r.volatility_cv)]

\* a float column as a sort key
key_of(r) == IF r = NaN THEN NaN ELSE [rational |-> r, root |-> <<0, 1>>]

\* D > sqrt(U) - sqrt(V) for finite ratios, U >= 0 and V >= 0
above_root_difference(D, U, V) ==
    IF D[1] >= 0
    THEN \/ FLess(RSub(U, V), RMul(D, D))
         \/ FLess(RMul(RSub(RSub(U, V), RMul(D, D)), RSub(RSub(U, V), RMul(D, D))),
                  RMulFrac(RMul(RMul(D, D), V), 4, 1))
    ELSE /\ FLess(RMul(D, D), RSub(V, U))
         /\ FLess(RMulFrac(RMul(RMul(D, D), U), 4, 1),
                  RMul(RSub(RSub(V, U), RMul(D, D)), RSub(RSub(V, U), RMul(D, D))))

\* a < b for two sort keys; false with a NaN
key_less(a, b) ==
    IF a = NaN \/ b = NaN THEN FALSE
    ELSE IF ~IsFinite(a.rational) \/ ~IsFinite(b.rational) \/ a.root = b.root
    THEN FLess(a.rational, b.rational)
    ELSE above_root_difference(RSub(b.rational, a.rational),
                               RMulFrac(b.root, 25, 1), RMulFrac(a.root, 25, 1))

\* s (keyed rows, descending) with x placed after the rows not smaller
RECURSIVE InsertKeyDesc(_, _)
InsertKeyDesc(x, s) ==
    IF s = <<>> THEN <<x>>
    ELSE IF key_less(Head(s).k, x.k) THEN <<x>> \o s
    ELSE <<Head(s)>> \o InsertKeyDesc(x, Tail(s))

RECURSIVE SortKeyDesc(_)
SortKeyDesc(s) ==
    IF s = <<>> THEN <<>>
    ELSE InsertKeyDesc(s[Len(s)], SortKeyDesc(SubSeq(s, 1, Len(s) - 1)))

\* s (keyed rows, ascending) with x placed after the rows not greater
RECURSIVE InsertKeyAsc(_, _)
InsertKeyAsc(x, s) ==
    IF s = <<>> THEN <<x>>
    ELSE IF key_less(x.k, Head(s).k) THEN <<x>> \o s
    ELSE <<Head(s)>> \o InsertKeyAsc(x, Tail(s))

RECURSIVE SortKeyAsc(_)
SortKeyAsc(s) ==
    IF s = <<>> THEN <<>>
    ELSE InsertKeyAsc(s[Len(s)], SortKeyAsc(SubSeq(s, 1, Len(s) - 1)))

\* DataFrame.nlargest(n, column), keep='first': the n rows of the largest
\* keys, descending, equal keys in frame order, NaN keys after the others
nlargest(n, keyed) ==
    SubSeq(Values(SortKeyDesc(SelectSeq(keyed, LAMBDA x : x.k # NaN)))
           \o Values(SelectSeq(keyed, LAMBDA x : x.k = NaN)),
           1, Min2(n, Len(keyed)))

\* DataFrame.sort_values(column): ascending, NaN keys last, equal keys in
\* frame order
sort_values_by(keyed) ==
    Values(SortKeyAsc(SelectSeq(keyed, LAMBDA x : x.k # NaN)))
    \o Values(SelectSeq(keyed, LAMBDA x : x.k = NaN))

\* volatility_cv < pct
cv_below(x, pct) == FLess(RNorm(x), RNorm(<<pct * pct, 10000>>))

\* active with its performance_score column
scored(active) ==
    [i \in DOMAIN active |-> [row |-> active[i],
                              performance_score |-> performance_score(active[i])]]

safe_bets_mask(x) ==
    /\ FLess(<<100, 1>>, x.row.roi_median)
    /\ FLess(<<75, 1>>, x.row.break_even_probability)
    /\ x.row.trade_count > 20
    /\ cv_below(x.row.volatility_cv, 40)

high_risk_mask(x) ==
    /\ FLess(<<500, 1>>, x.row.roi_median)
    /\ x.row.trade_count > 5

undervalued_mask(x) ==
    /\ FLess(<<0, 1>>, x.row.roi_median)
    /\ FLess(<<10, 1>>, x.row.price_trend_overall)
    /\ x.row.trade_count > 10

\* the rows to avoid taken as those breaking even in fewer than 75 of 100
\* trades
avoid_mask_below_75(x) ==
    \/ FLess(x.row.roi_median, <<-15, 1>>)
    \/ FLess(x.row.break_even_probability, <<75, 1>>)

avoid_mask(x) ==
    \/ FLess(x.row.roi_median, <<-15, 1>>)
    \/ FLess(x.row.break_even_probability, <<25, 1>>)

recommendations_of(active) ==
    [safe_bets |->
        nlargest(10, [x \in DOMAIN SelectSeq(active, safe_bets_mask) |->
            [k |-> SelectSeq(active, safe_bets_mask)[x].performance_score,
             v |-> SelectSeq(active, safe_bets_mask)[x]]]),
     high_risk_high_reward |->
        nlargest(10, [x \in DOMAIN SelectSeq(active, high_risk_mask) |->
            [k |-> key_of(SelectSeq(active, high_risk_mask)[x].row.roi_median),
             v |-> SelectSeq(active, high_risk_mask)[x]]]),
     undervalued_trending |->
        nlargest(10, [x \in DOMAIN SelectSeq(active, undervalued_mask) |->
            [k |-> key_of(SelectSeq(active, undervalued_mask)[x].row.price_trend_overall),
             v |-> SelectSeq(active, undervalued_mask)[x]]]),
     avoid |->
        sort_values_by([x \in DOMAIN SelectSeq(active, avoid_mask) |->
            [k |-> key_of(SelectSeq(active, avoid_mask)[x].row.roi_median),
             v |-> SelectSeq(active, avoid_mask)[x]]])]

generate_investment_recommendations(frame) ==
    recommendations_of(scored(active_items_of(frame)))

(***************************************************************************)
(* detect_game_update_impact(df).  An item name is the sequence of its     *)
(* character codes, <<>> for a missing name.                               *)
(***************************************************************************)
GAME_UPDATE_DATE == 2208      \* datetime(2026, 1, 7), in hours

\* 'blood'
KEYWORD == <<98, 108, 111, 111, 100>>

\* str.lower() of a character code
lower(c) == IF c \in 65..90 THEN c + 32 ELSE c

\* str.contains(pat, case=False, na=False) for a literal pattern
str_contains(name, pat) ==
    \E k \in 0..(Len(name) - Len(pat)) :
        \A j \in 1..Len(pat) : lower(name[k + j]) = lower(pat[j])

\* a < b for names, as Python orders strings
RECURSIVE NameLess(_, _)
NameLess(a, b) ==
    IF b = <<>> THEN FALSE
    ELSE IF a = <<>> THEN TRUE
    ELSE IF Head(a) # Head(b) THEN Head(a) < Head(b)
    ELSE NameLess(Tail(a), Tail(b))

\* the order of the groupby keys (item_id, item_name)
KeyLeq(a, b) ==
    \/ a[1] < b[1]
    \/ a[1] = b[1] /\ (a[2] = b[2] \/ NameLess(a[2], b[2]))

RECURSIVE SortKeys(_)
SortKeys(S) ==
    IF S = {} THEN <<>>
    ELSE LET m == CHOOSE x \in S : \A y \in S : KeyLeq(x, y)
         IN  <<m>> \o SortKeys(S \ {m})

\* df[df['item_name'].str.contains('blood', case=False, na=False)]
blood_related(trades) ==
    SelectSeq(trades, LAMBDA t : str_contains(t.item_name, KEYWORD))

group_keys(trades) == SortKeys({<<trades[i].item_id, trades[i].item_name>> : i \in DOMAIN trades})

group_of(trades, key) ==
    SelectSeq(trades, LAMBDA t : t.item_id = key[1] /\ t.item_name = key[2])

pre_update(grp) == SelectSeq(grp, LAMBDA t : t.time < GAME_UPDATE_DATE)
post_update(grp) == SelectSeq(grp, LAMBDA t : t.time >= GAME_UPDATE_DATE)

\* Series.mean(): NaN for no rows
mean_or_nan(ps) == IF Len(ps) = 0 THEN NaN ELSE Mean(ps)

\* ((b - a) / a * 100) if a > 0 else 0, for floats a and b
change_pct(a, b) ==
    IF a = NaN \/ b = NaN THEN (IF FLess(<<0, 1>>, a) THEN NaN ELSE <<0, 1>>)
    ELSE pct_change(a, b)

\* (td).days or 1, for a span of h >= 0 hours
days_or_one(h) == IF h \div 24 = 0 THEN 1 ELSE h \div 24

pre_volume_per_day(pre) ==
    <<SumSeq(Amounts(pre)), days_or_one(GAME_UPDATE_DATE - MinSeq(Times(pre)))>>

post_volume_per_day(post) ==
    <<SumSeq(Amounts(post)), days_or_one(MaxSeq(Times(post)) - GAME_UPDATE_DATE)>>

\* [item for item in self.all_shop_items if item['item_id'] == item_id]
shop_costs_list(shop_items, item_id) ==
    SelectSeq(shop_items, LAMBDA e : e.item_id = item_id)

\* the label with an average equal to the cost taken as profitable
profitability_of_not_below(shop_list, pre_avg, post_avg) ==
    IF shop_list = <<>> THEN "N/A"
    ELSE LET was_profitable == FGeq(pre_avg, <<shop_list[1].cost, 1>>)
             is_profitable == FGeq(post_avg, <<shop_list[1].cost, 1>>)
         IN  IF ~was_profitable /\ is_profitable THEN "NOW PROFITABLE"
             ELSE IF was_profitable /\ ~is_profitable THEN "NO LONGER PROFITABLE"
             ELSE IF is_profitable THEN "STILL PROFITABLE"
             ELSE "STILL UNPROFITABLE"

profitability_of(shop_list, pre_avg, post_avg) ==
    IF shop_list = <<>> THEN "N/A"
    ELSE LET was_profitable == FLess(<<shop_list[1].cost, 1>>, pre_avg)
             is_profitable == FLess(<<shop_list[1].cost, 1>>, post_avg)
         IN  IF ~was_profitable /\ is_profitable THEN "NOW PROFITABLE"
             ELSE IF was_profitable /\ ~is_profitable THEN "NO LONGER PROFITABLE"
             ELSE IF is_profitable THEN "STILL PROFITABLE"
             ELSE "STILL UNPROFITABLE"

\* the thresholds compared with the signed change
significance_signed(price_change) ==
    IF FLess(<<20, 1>>, price_change) THEN "HIGH"
    ELSE IF FLess(<<10, 1>>, price_change) THEN "MEDIUM"
    ELSE "LOW"

significance_of(price_change) ==
    IF FLess(<<20, 1>>, RAbs(price_change)) THEN "HIGH"
    ELSE IF FLess(<<10, 1>>, RAbs(price_change)) THEN "MEDIUM"
    ELSE "LOW"

\* shop_info: the first entry's cost and currency, then the other entries'
shop_info_of(shop_list) ==
    [i \in DOMAIN shop_list |-> <<shop_list[i].cost, shop_list[i].currency>>]

impact_fields(key, pre, post, pre_avg, post_avg, shop_list) ==
    [item_id |-> key[1],
     item_name |-> key[2],
     shop_cost |-> IF shop_list = <<>> THEN <<>> ELSE <<shop_list[1].cost>>,
     shop_info |-> shop_info_of(shop_list),
     pre_update_avg_price |-> pre_avg,
     post_update_avg_price |-> post_avg,
     price_change_pct |-> change_pct(pre_avg, post_avg),
     pre_update_trades |-> Len(pre),
     post_update_trades |-> Len(post),
     volume_change_pct |-> pct_change(pre_volume_per_day(pre), post_volume_per_day(post)),
     profitability_status |-> profitability_of(shop_list, pre_avg, post_avg),
     significance |-> significance_of(change_pct(pre_avg, post_avg))]

impact_of_split(key, pre, post, shop_items) ==
    impact_fields(key, pre, post,
                  mean_or_nan(Prices(detect_and_clean_outliers(pre))),
                  mean_or_nan(Prices(detect_and_clean_outliers(post))),
                  shop_costs_list(shop_items, key[1]))

impact_of_group(key, grp, shop_items) ==
    impact_of_split(key, pre_update(grp), post_update(grp), shop_items)

\* len(pre_update) > 0 and len(post_update) > 0
has_both_sides(grp) == Len(pre_update(grp)) > 0 /\ Len(post_update(grp)) > 0

impact_results(related, keys, shop_items) ==
    [i \in DOMAIN keys |-> impact_of_group(keys[i], group_of(related, keys[i]), shop_items)]

impact_keys(related) ==
    SelectSeq(group_keys(related), LAMBDA k : has_both_sides(group_of(related, k)))

impact_of_related(related, shop_items) ==
    impact_results(related, impact_keys(related), shop_items)

detect_game_update_impact(trades, shop_items) ==
    impact_of_related(blood_related(trades), shop_items)

(***************************************************************************)
(* The fetch scripts (src/scripts/fetch_trade_data.py, fetch_top_items.py).*)
(* The clock counts units of 25 ms.                                        *)
(***************************************************************************)
RATE_LIMIT_DELAY == 4         \* 0.1 s

Scripts == {"fetch_trade_data", "fetch_top_items"}

MAX_PAGES_PER_ITEM == [fetch_trade_data |-> 5, fetch_top_items |-> 100]

\* no fetch script is running
NoFetcher == [script |-> "none"]

\* time.time() when the script starts: far from the 0 of __init__
EpochNow == 3 * RATE_LIMIT_DELAY

\* the clock is not followed beyond this time
FetchHorizon == EpochNow + 5 * RATE_LIMIT_DELAY

\* throttle() that never sleeps
wake_time_no_sleep(now, last_request_time, delay, oversleep) == now

\* throttle(): the time at which it returns when called at now; time.sleep
\* returns oversleep units after the time asked for
wake_time(now, last_request_time, delay, oversleep) ==
    IF now - last_request_time < delay
    THEN now + (delay - (now - last_request_time)) + oversleep
    ELSE now

\* the last two elements of s \o <<x>>
LastTwo(s, x) == IF s = <<>> THEN <<x>> ELSE <<s[Len(s)], x>>

\* what a request leads to: a page of trades, a page of trades all older
\* than the cutoff (fetch_top_items only), no trades, a status other than
\* 200, or a RequestException
Outcomes(script) ==
    {"page", "empty", "http_error", "exception"}
    \cup (IF script = "fetch_top_items" THEN {"old_page"} ELSE {})

\* the trades of a page that fetch_item_trades keeps, known by the item and
\* the page they came from
page_trades(f) == <<<<f.item, f.page>>>>

\* all_trades.extend(data) and page += 1: the while loop goes on
next_page(f) ==
    [f EXCEPT !.all_trades = @ \o page_trades(f), !.page = @ + 1, !.loc = "while"]

\* a return of an empty list whatever was accumulated
next_item_discarding(f) ==
    [f EXCEPT !.item = @ + 1, !.page = 1, !.requests = 0, !.all_trades = <<>>,
              !.returned = <<[trades |-> <<>>, requests |-> f.requests]>>,
              !.loc = IF f.item < f.items THEN "while" ELSE "done"]

\* return all_trades: fetch_all_trades goes on with the next item, whose
\* call starts with all_trades = [] and page = 1
next_item(f) ==
    [f EXCEPT !.item = @ + 1, !.page = 1, !.requests = 0, !.all_trades = <<>>,
              !.returned = <<[trades |-> f.all_trades, requests |-> f.requests]>>,
              !.loc = IF f.item < f.items THEN "while" ELSE "done"]

after_response(f, outcome) ==
    IF outcome = "page" THEN next_page(f) ELSE next_item(f)

(***************************************************************************)
(* Inputs.                                                                 *)
(***************************************************************************)
\* "Blood Orb" for item 1, "Bone" for the others
ItemName(i) ==
    IF i = 1 THEN <<66, 108, 111, 111, 100, 32, 79, 114, 98>>
    ELSE <<66, 111, 110, 101>>

NamedTrade(i, nm, t, p, a) ==
    [item_id |-> i, item_name |-> nm, time |-> t, price |-> p, amount |-> a]

Trade(i, t, p, a) == NamedTrade(i, ItemName(i), t, p, a)

SeqsUpTo(S, n) == UNION {[1..k -> S] : k \in 0..n}

SamplePrices == {0, 1, 4}
SampleTimes == {TODAY - 100, TODAY - 30}
Samples == SeqsUpTo({Trade(1, t, p, 1) : t \in SampleTimes, p \in SamplePrices}, MaxLen)

IterSamples == SeqsUpTo({Trade(1, TODAY - 30, p, 1) : p \in SamplePrices}, MaxIterLen)

EwmaPrices == {1, 4, 6}
EwmaTimes == {TODAY - 100, TODAY - 30, TODAY - 2}
EwmaSamples == SeqsUpTo({Trade(1, t, p, 1) : t \in EwmaTimes, p \in EwmaPrices}, MaxEwmaLen)

ConfPrices == {0, 3}
ConfTimes == {TODAY - 100, TODAY - 52, TODAY - 28}
ConfSamples == SeqsUpTo({Trade(1, t, p, 1) : t \in ConfTimes, p \in ConfPrices}, MaxConfLen)

Alphas == 1..(ALPHA_DEN - 1)
SampleCost == 10

(***************************************************************************)
(* The statistical methods applied to a price sample.                      *)
(***************************************************************************)
DetectAndCleanOutliers ==
    /\ call' = [op |-> "detect_and_clean_outliers", applied |-> 1]
    /\ ret' = detect_and_clean_outliers(group)
    /\ UNCHANGED <<df, all_shop_items, group, roi_df, fetcher, pc>>

\* the filter applied to its own output, as calculate_purchase_zones and
\* calculate_confidence_score apply it to the cleaned trades they are given
ReapplyFilter ==
    /\ call.op = "detect_and_clean_outliers"
    /\ call.applied < MaxIterLen
    /\ call' = [call EXCEPT !.applied = @ + 1]
    /\ ret' = detect_and_clean_outliers(ret)
    /\ UNCHANGED <<df, all_shop_items, group, roi_df, fetcher, pc>>

CalculateEwmaMedian ==
    \E a \in Alphas :
        /\ call' = [op |-> "calculate_ewma_median", alpha |-> a]
        /\ ret' = calculate_ewma_median(group, a)
        /\ UNCHANGED <<df, all_shop_items, group, roi_df, fetcher, pc>>

CalculatePurchaseZones ==
    /\ call' = [op |-> "calculate_purchase_zones", shop_cost |-> SampleCost]
    /\ ret' = calculate_purchase_zones(group, SampleCost)
    /\ UNCHANGED <<df, all_shop_items, group, roi_df, fetcher, pc>>

CalculateConfidenceScore ==
    /\ call' = [op |-> "calculate_confidence_score", shop_cost |-> SampleCost]
    /\ ret' = calculate_confidence_score(group, SampleCost)
    /\ UNCHANGED <<df, all_shop_items, group, roi_df, fetcher, pc>>

InitSample ==
    /\ pc = [stage |-> "sample"]
    /\ df = <<>>
    /\ all_shop_items = <<>>
    /\ group \in Samples
    /\ call = None
    /\ ret = None
    /\ roi_df = <<>>
    /\ fetcher = NoFetcher

NextSample ==
    \/ DetectAndCleanOutliers
    \/ CalculatePurchaseZones
    \/ CalculateConfidenceScore

SpecSample == InitSample /\ [][NextSample]_vars

InitIter ==
    /\ pc = [stage |-> "sample"]
    /\ df = <<>>
    /\ all_shop_items = <<>>
    /\ group \in IterSamples
    /\ call = None
    /\ ret = None
    /\ roi_df = <<>>
    /\ fetcher = NoFetcher

NextIter == DetectAndCleanOutliers \/ ReapplyFilter

SpecIter == InitIter /\ [][NextIter]_vars

InitEwma ==
    /\ pc = [stage |-> "sample"]
    /\ df = <<>>
    /\ all_shop_items = <<>>
    /\ group \in EwmaSamples
    /\ call = None
    /\ ret = None
    /\ roi_df = <<>>
    /\ fetcher = NoFetcher

NextEwma == CalculateEwmaMedian

SpecEwma == InitEwma /\ [][NextEwma]_vars

InitConfidence ==
    /\ pc = [stage |-> "sample"]
    /\ df = <<>>
    /\ all_shop_items = <<>>
    /\ group \in ConfSamples
    /\ call = None
    /\ ret = None
    /\ roi_df = <<>>
    /\ fetcher = NoFetcher

NextConfidence == CalculateConfidenceScore \/ DetectAndCleanOutliers

SpecConfidence == InitConfidence /\ [][NextConfidence]_vars

(***************************************************************************)
(* The analyzer on loaded data.                                            *)
(***************************************************************************)
TradePrices == {8, 12}
TradeTimes == {TODAY - 2200, TODAY - 200, TODAY - 24}
TradeItems == {1, 2}
TradeKinds == {Trade(i, t, p, 1) : i \in TradeItems, t \in TradeTimes, p \in TradePrices}

ShardShops == {<<ShopItem(1, 10)>>, <<ShopItem(2, 10), ShopItem(3, 5)>>}
TokenShops == {<<ShopItem(1, 0)>>, <<ShopItem(2, 4)>>}

WindowOrder == <<"1h", "24h", "7d", "30d", "all">>

\* generate_comprehensive_report: the aggregate of the last ANALYSIS_DAYS
CalculateComprehensiveRoi ==
    /\ pc.stage = "report"
    /\ call' = [op |-> "calculate_comprehensive_roi"]
    /\ group' = filter_recent_trades(df, ANALYSIS_DAYS)
    /\ roi_df' = calculate_comprehensive_roi(group', all_shop_items)
    /\ ret' = roi_df'
    /\ pc' = [stage |-> "distribution", idx |-> 1]
    /\ UNCHANGED <<df, all_shop_items, fetcher>>

\* generate_comprehensive_report: the ROI distribution of one currency
AnalyzeRoiDistribution ==
    /\ pc.stage = "distribution"
    /\ call' = [op |-> "analyze_roi_distribution", currency |-> Currencies[pc.idx]]
    /\ ret' \in analyze_roi_distribution(currency_roi(roi_df, Currencies[pc.idx]))
    /\ pc' = IF pc.idx < Len(Currencies)
             THEN [pc EXCEPT !.idx = @ + 1]
             ELSE [stage |-> "never_worth"]
    /\ UNCHANGED <<df, all_shop_items, group, roi_df, fetcher>>

\* generate_comprehensive_report: the entries never worth buying
IdentifyExponentiallyWorseItems ==
    /\ pc.stage = "never_worth"
    /\ call' = [op |-> "identify_exponentially_worse_items"]
    /\ ret' = identify_exponentially_worse_items(roi_df)
    /\ pc' = [stage |-> "recommendations"]
    /\ UNCHANGED <<df, all_shop_items, group, roi_df, fetcher>>

\* generate_comprehensive_report: the four buckets of recommendations
GenerateInvestmentRecommendations ==
    /\ pc.stage = "recommendations"
    /\ call' = [op |-> "generate_investment_recommendations"]
    /\ ret' = generate_investment_recommendations(roi_df)
    /\ pc' = [stage |-> "update_impact"]
    /\ UNCHANGED <<df, all_shop_items, group, roi_df, fetcher>>

\* generate_comprehensive_report: the impact of the game update on the recent
\* trades; the report returns after it and main() goes on to the frontend
DetectGameUpdateImpact ==
    /\ pc.stage = "update_impact"
    /\ call' = [op |-> "detect_game_update_impact"]
    /\ ret' = detect_game_update_impact(group, all_shop_items)
    /\ pc' = [stage |-> "frontend", idx |-> 1, window |-> 1, analysed |-> FALSE]
    /\ UNCHANGED <<df, all_shop_items, group, roi_df, fetcher>>

\* generate_frontend_json, for the shop entry and window it has come to:
\* the call of analyze_time_window
AnalyzeTimeWindow ==
    /\ pc.stage = "frontend"
    /\ pc.idx <= Len(all_shop_items)
    /\ ~pc.analysed
    /\ LET shop_item == all_shop_items[pc.idx]
           w == WindowOrder[pc.window]
       IN  /\ call' = [op |-> "analyze_time_window",
                       item_id |-> shop_item.item_id,
                       shop_cost |-> shop_item.cost,
                       window_name |-> w]
           /\ ret' = analyze_time_window(df, shop_item.item_id, shop_item.cost,
                                         TIME_WINDOWS[w])
    /\ pc' = [pc EXCEPT !.analysed = TRUE]
    /\ UNCHANGED <<df, all_shop_items, group, roi_df, fetcher>>

\* generate_frontend_json: the entry of time_window_data made of the analysis
FrontendWindow ==
    /\ pc.stage = "frontend"
    /\ pc.idx <= Len(all_shop_items)
    /\ pc.analysed
    /\ call' = [call EXCEPT !.op = "generate_frontend_json"]
    /\ ret' = frontend_window(ret)
    /\ pc' = IF pc.window < Len(WindowOrder)
             THEN [pc EXCEPT !.window = @ + 1, !.analysed = FALSE]
             ELSE [pc EXCEPT !.idx = @ + 1, !.window = 1, !.analysed = FALSE]
    /\ UNCHANGED <<df, all_shop_items, group, roi_df, fetcher>>

Init ==
    /\ pc = [stage |-> "report"]
    /\ df \in SeqsUpTo(TradeKinds, MaxTrades)
    /\ \E sh \in ShardShops, tk \in TokenShops :
        all_shop_items = build_shop_data(sh, tk)
    /\ group = <<>>
    /\ call = None
    /\ ret = None
    /\ roi_df = <<>>
    /\ fetcher = NoFetcher

Next ==
    \/ CalculateComprehensiveRoi
    \/ AnalyzeRoiDistribution
    \/ IdentifyExponentiallyWorseItems
    \/ GenerateInvestmentRecommendations
    \/ DetectGameUpdateImpact
    \/ AnalyzeTimeWindow
    \/ FrontendWindow

Spec == Init /\ [][Next]_vars

\* the aggregate on trades around one shop cost
RoiPrices == {900, 950, 1000, 1050, 1100}
RoiTrades == {Trade(1, TODAY - 30, p, 1) : p \in RoiPrices}
RoiShops == {build_shop_data(<<ShopItem(1, 1000)>>, <<ShopItem(2, 500)>>),
             build_shop_data(<<ShopItem(1, 900)>>, <<ShopItem(1, 1000)>>)}

InitRoi ==
    /\ pc = [stage |-> "report"]
    /\ df \in SeqsUpTo(RoiTrades, MaxRoiLen)
    /\ all_shop_items \in RoiShops
    /\ group = <<>>
    /\ call = None
    /\ ret = None
    /\ roi_df = <<>>
    /\ fetcher = NoFetcher

NextRoi == CalculateComprehensiveRoi

SpecRoi == InitRoi /\ [][NextRoi]_vars

\* the report on one item traded below, near and above a cost of 100
WorsePrices == {30, 80, 120}
WorseTrades == {Trade(1, TODAY - 30, p, 1) : p \in WorsePrices}
WorseShops == {build_shop_data(<<ShopItem(1, 100)>>, <<ShopItem(2, 500)>>),
               build_shop_data(<<ShopItem(1, 100)>>, <<ShopItem(1, 40)>>)}

\* k trades at 30, then trades at 70, then one at 120: n trades in all
LongWorse(n, k) ==
    [i \in 1..n |-> Trade(1, TODAY - 30, IF i <= k THEN 30 ELSE IF i < n THEN 70 ELSE 120, 1)]

LongWorseSamples == {LongWorse(n, k) : n \in {11, 20}, k \in 0..10}

InitWorse ==
    /\ pc = [stage |-> "report"]
    /\ df \in SeqsUpTo(WorseTrades, MaxWorseLen) \cup LongWorseSamples
    /\ all_shop_items \in WorseShops
    /\ group = <<>>
    /\ call = None
    /\ ret = None
    /\ roi_df = <<>>
    /\ fetcher = NoFetcher

NextWorse ==
    \/ CalculateComprehensiveRoi
    \/ AnalyzeRoiDistribution
    \/ IdentifyExponentiallyWorseItems

SpecWorse == InitWorse /\ [][NextWorse]_vars

\* the report on trades before and after the game update
BLOOD == <<66, 108, 111, 111, 100>>              \* "Blood"
XBLOOD == <<120, 66, 76, 79, 79, 68>>            \* "xBLOOD"
BLOB == <<98, 108, 111, 98>>                     \* "blob"

ImpactPrices == {0, 200, 220, 240}
ImpactKinds ==
    {NamedTrade(1, BLOOD, t, p, 1) :
        t \in {GAME_UPDATE_DATE - 48, GAME_UPDATE_DATE}, p \in ImpactPrices}
    \cup {NamedTrade(1, BLOOD, GAME_UPDATE_DATE + 48, 400, 2),
          NamedTrade(1, BLOOD, GAME_UPDATE_DATE - 1, 100, 1),
          NamedTrade(1, BLOB, GAME_UPDATE_DATE - 48, 200, 1),
          NamedTrade(2, XBLOOD, GAME_UPDATE_DATE - 48, 200, 3),
          NamedTrade(2, XBLOOD, GAME_UPDATE_DATE + 48, 400, 1),
          NamedTrade(2, <<>>, GAME_UPDATE_DATE, 200, 1)}

\* four trades at p and one at q before the update, one at r after it
LongImpact(p, q, r) ==
    [i \in 1..6 |-> NamedTrade(1, BLOOD,
                               IF i <= 5 THEN GAME_UPDATE_DATE - 48 ELSE GAME_UPDATE_DATE + 48,
                               IF i <= 4 THEN p ELSE IF i = 5 THEN q ELSE r, 1)]

LongImpactSamples ==
    {LongImpact(p, q, r) : p \in {0, 200}, q \in {200, 1000}, r \in {200, 400}}

ImpactShops == {build_shop_data(<<ShopItem(1, 210)>>, <<ShopItem(1, 100)>>),
                build_shop_data(<<ShopItem(3, 10)>>, <<>>)}

InitImpact ==
    /\ pc = [stage |-> "report"]
    /\ df \in SeqsUpTo(ImpactKinds, MaxImpactLen) \cup LongImpactSamples
    /\ all_shop_items \in ImpactShops
    /\ group = <<>>
    /\ call = None
    /\ ret = None
    /\ roi_df = <<>>
    /\ fetcher = NoFetcher

NextImpact ==
    \/ CalculateComprehensiveRoi
    \/ AnalyzeRoiDistribution
    \/ IdentifyExponentiallyWorseItems
    \/ GenerateInvestmentRecommendations
    \/ DetectGameUpdateImpact

SpecImpact == InitImpact /\ [][NextImpact]_vars

\* the aggregate on one item whose price moves over time
TrendKinds == {Trade(1, t, p, 1) : t \in {TODAY - 100, TODAY - 30}, p \in {0, 10, 40}}

InitTrend ==
    /\ pc = [stage |-> "report"]
    /\ df \in SeqsUpTo(TrendKinds, MaxTrendLen)
    /\ all_shop_items = build_shop_data(<<ShopItem(1, 20)>>, <<>>)
    /\ group = <<>>
    /\ call = None
    /\ ret = None
    /\ roi_df = <<>>
    /\ fetcher = NoFetcher

NextTrend == CalculateComprehensiveRoi

SpecTrend == InitTrend /\ [][NextTrend]_vars

\* the report on one item traded at, below and above its costs, a cost of 0
\* among them
DistPrices == {0, 10, 30}
DistTrades == {Trade(1, TODAY - 30, p, 1) : p \in DistPrices}
DistShops == {build_shop_data(<<ShopItem(1, 10)>>, <<ShopItem(1, 0)>>),
              build_shop_data(<<ShopItem(1, 20), ShopItem(2, 5)>>, <<ShopItem(1, 25)>>)}

InitDist ==
    /\ pc = [stage |-> "report"]
    /\ df \in SeqsUpTo(DistTrades, MaxDistLen)
    /\ all_shop_items \in DistShops
    /\ group = <<>>
    /\ call = None
    /\ ret = None
    /\ roi_df = <<>>
    /\ fetcher = NoFetcher

NextDist == CalculateComprehensiveRoi \/ AnalyzeRoiDistribution

SpecDist == InitDist /\ [][NextDist]_vars

\* the report on one item traded far below and far above its costs
RecPrices == {5, 70}
RecTrades == {Trade(1, TODAY - 30, p, 1) : p \in RecPrices}
RecShops == {build_shop_data(<<ShopItem(1, 10)>>, <<ShopItem(1, 100)>>),
             build_shop_data(<<ShopItem(1, 60), ShopItem(2, 5)>>, <<ShopItem(1, 30)>>)}

\* n trades an hour apart: the earlier half at lo, the later half at hi
LongRec(n, lo, hi) ==
    [i \in 1..n |-> Trade(1, TODAY - 100 + i, IF 2 * i <= n THEN lo ELSE hi, 1)]

LongRecSamples == {LongRec(n, lo, hi) : n \in {11, 21}, lo \in {35, 70}, hi \in {35, 70}}

InitRec ==
    /\ pc = [stage |-> "report"]
    /\ df \in SeqsUpTo(RecTrades, MaxRecLen) \cup LongRecSamples
    /\ all_shop_items \in RecShops
    /\ group = <<>>
    /\ call = None
    /\ ret = None
    /\ roi_df = <<>>
    /\ fetcher = NoFetcher

NextRec ==
    \/ CalculateComprehensiveRoi
    \/ AnalyzeRoiDistribution
    \/ IdentifyExponentiallyWorseItems
    \/ GenerateInvestmentRecommendations

SpecRec == InitRec /\ [][NextRec]_vars

\* main() on one item traded around two costs, and on two items traded
\* around the cutoff of the 24h window
WindowPriceKinds == {Trade(1, t, p, 1) : t \in {TODAY - 30, TODAY - 2}, p \in {8, 9, 12}}
WindowTimeKinds ==
    {Trade(i, t, 8, 1) : i \in {1, 2}, t \in {TODAY - 25, TODAY - 24, TODAY - 1}}

\* four trades at 8 and one at p, and a trade of the other item
LongWindow(p) ==
    [i \in 1..6 |-> IF i = 3 THEN Trade(2, TODAY - 2, 12, 1)
                    ELSE Trade(1, TODAY - 2, IF i = 6 THEN p ELSE 8, 1)]

\* six trades of which the filter drops the dearest, and the next dearest
\* when it is applied again
FilteredTwice == [i \in 1..6 |-> Trade(1, TODAY - 2, <<10, 10, 10, 11, 18, 40>>[i], 1)]

WindowShops == {build_shop_data(<<ShopItem(1, 10)>>, <<ShopItem(1, 8)>>),
                build_shop_data(<<ShopItem(1, 0)>>, <<ShopItem(2, 9)>>)}

InitWindow ==
    /\ pc = [stage |-> "report"]
    /\ df \in SeqsUpTo(WindowPriceKinds, MaxWindowLen)
              \cup SeqsUpTo(WindowTimeKinds, MaxWindowLen)
              \cup {LongWindow(8), LongWindow(100), FilteredTwice}
    /\ all_shop_items \in WindowShops
    /\ group = <<>>
    /\ call = None
    /\ ret = None
    /\ roi_df = <<>>
    /\ fetcher = NoFetcher

SpecWindow == InitWindow /\ [][Next]_vars

(***************************************************************************)
(* A run of a fetch script.                                                *)
(***************************************************************************)
\* time passes between two steps of the script
FetchTick ==
    /\ fetcher.script \in Scripts
    /\ fetcher.loc # "done"
    /\ fetcher.now < FetchHorizon
    /\ fetcher' = [fetcher EXCEPT !.now = @ + 1]
    /\ UNCHANGED <<df, all_shop_items, group, call, ret, roi_df, pc>>

\* while page <= max_pages: self.throttle()
Throttle ==
    /\ fetcher.script \in Scripts
    /\ fetcher.loc = "while"
    /\ fetcher.page <= fetcher.max_pages
    /\ \E oversleep \in 0..1 :
        fetcher' = [fetcher EXCEPT
            !.now = wake_time(fetcher.now, fetcher.last_request_time,
                              fetcher.delay, oversleep),
            !.last_request_time = wake_time(fetcher.now, fetcher.last_request_time,
                                            fetcher.delay, oversleep),
            !.stamps = LastTwo(@, wake_time(fetcher.now, fetcher.last_request_time,
                                            fetcher.delay, oversleep)),
            !.loc = "throttled"]
    /\ UNCHANGED <<df, all_shop_items, group, call, ret, roi_df, pc>>

\* the while loop ends at max_pages
LastPage ==
    /\ fetcher.script \in Scripts
    /\ fetcher.loc = "while"
    /\ fetcher.page > fetcher.max_pages
    /\ fetcher' = next_item(fetcher)
    /\ UNCHANGED <<df, all_shop_items, group, call, ret, roi_df, pc>>

\* requests.get(API_URL, params=params, timeout=10) and what the loop does
\* with the response
HttpGet ==
    /\ fetcher.script \in Scripts
    /\ fetcher.loc = "throttled"
    /\ \E latency \in 0..MaxLatency, outcome \in Outcomes(fetcher.script) :
        fetcher' = after_response(
            [fetcher EXCEPT !.issued = LastTwo(@, fetcher.now),
                            !.requests = @ + 1,
                            !.now = @ + latency],
            outcome)
    /\ UNCHANGED <<df, all_shop_items, group, call, ret, roi_df, pc>>

InitFetch ==
    /\ pc = [stage |-> "fetch"]
    /\ df = <<>>
    /\ all_shop_items = <<>>
    /\ group = <<>>
    /\ call = None
    /\ ret = None
    /\ roi_df = <<>>
    /\ \E sc \in Scripts, n \in 1..MaxFetchItems, mp \in 1..MaxFetchPages :
        /\ mp <= MAX_PAGES_PER_ITEM[sc]
        /\ fetcher = [script |-> sc, items |-> n, max_pages |-> mp, item |-> 1,
                      page |-> 1, requests |-> 0, all_trades |-> <<>>,
                      returned |-> <<>>, loc |-> "while", now |-> EpochNow,
                      last_request_time |-> 0, delay |-> RATE_LIMIT_DELAY,
                      stamps |-> <<>>, issued |-> <<>>]

NextFetch == FetchTick \/ Throttle \/ LastPage \/ HttpGet

SpecFetch == InitFetch /\ [][NextFetch]_vars

\* the fetch loops alone, no time passing between two statements: throttle()
\* returns after its sleep and requests.get returns or raises within its
\* timeout, so a loop that can take a step does
NextPages == Throttle \/ LastPage \/ HttpGet

SpecPages == InitFetch /\ [][NextPages]_vars /\ WF_vars(NextPages)

(***************************************************************************)
(* Properties of the statistical methods.                                  *)
(***************************************************************************)
IsCall(name) == call.op = name
Abs(x) == IF x < 0 THEN -x ELSE x

\* C3: for every non-empty price sample the five thresholds of
\* calculate_purchase_zones are excellent = Q1, good = Q2 - 0.25*IQR,
\* fair = Q2 + 0.25*IQR, overpriced = Q3, avoid = Q3 + 0.5*IQR of the
\* (cleaned) sample and satisfy excellent <= good <= fair <= overpriced <=
\* avoid.
C3_ZonesOrdered ==
    (IsCall("calculate_purchase_zones") /\ group # <<>>) =>
        LET ps == Prices(clean_or_original(group))
            Q1 == quantile4(ps, 1)
            Q2 == quantile4(ps, 2)
            Q3 == quantile4(ps, 3)
        IN  /\ ret.excellent = 4 * Q1
            /\ ret.good = 4 * Q2 - (Q3 - Q1)
            /\ ret.fair = 4 * Q2 + (Q3 - Q1)
            /\ ret.overpriced = 4 * Q3
            /\ ret.avoid = 4 * Q3 + 2 * (Q3 - Q1)
            /\ ret.excellent <= ret.good
            /\ ret.good <= ret.fair
            /\ ret.fair <= ret.overpriced
            /\ ret.overpriced <= ret.avoid

\* C4: for every sample (empty, a single trade, all-equal prices, mean
\* price <= 0 included) calculate_confidence_score returns a number in
\* [0, 100], 0 for the empty sample, and its three factors are numbers
\* bounded by 40, 30 and 30.
C4_ConfidenceBounded ==
    IsCall("calculate_confidence_score") =>
        /\ ret >= 0
        /\ ret <= 100 * EXP_ONE
        /\ group = <<>> => ret = 0
        /\ group # <<>> =>
            LET clean_group == clean_or_original(group)
                v == volatility_score(clean_group)
            IN  /\ sample_score(clean_group) \in 0..(40 * EXP_ONE)
                /\ v # NaN
                /\ v[1] \in 0..(30 * EXP_ONE)
                /\ liquidity_score(clean_group) \in 0..(30 * EXP_ONE)

C5_InRange(t) ==
    LET Q1 == quantile4(Prices(group), 1)
        Q3 == quantile4(Prices(group), 3)
    IN  /\ Q1 - 3 * (Q3 - Q1) <= 4 * t.price
        /\ 4 * t.price <= Q3 + 3 * (Q3 - Q1)

\* C5: for every non-empty sample detect_and_clean_outliers returns exactly
\* the records whose price p has Q1 - 3*IQR <= p <= Q3 + 3*IQR, Q1 and Q3
\* the quartiles of the input prices, in their input order and unaltered.
C5_FilterIsRangeSubsequence ==
    (IsCall("detect_and_clean_outliers") /\ call.applied = 1 /\ group # <<>>) =>
        LET kept == {i \in DOMAIN group : C5_InRange(group[i])}
            Rank(i) == Cardinality({j \in kept : j <= i})
        IN  /\ Len(ret) = Cardinality(kept)
            /\ \A i \in kept : ret[Rank(i)] = group[i]

C5_Witness ==
    /\ IsCall("detect_and_clean_outliers")
    /\ call.applied = 1
    /\ Len(ret) >= 3
    /\ Len(ret) < Len(group)
    /\ group[1] # ret[1]

\* C6: iterating detect_and_clean_outliers from a non-empty sample of n
\* records reaches, within n - 1 applications, a non-empty sample F (one
\* with a quartile range) that the filter returns unchanged, so every
\* further application returns F.
C6_FilterStabilises ==
    (/\ IsCall("detect_and_clean_outliers")
     /\ group # <<>>
     /\ call.applied >= Len(group) - 1) =>
        /\ ret # <<>>
        /\ detect_and_clean_outliers(ret) = ret

\* a sample the first application does not bring to its stable range
C6_Witness ==
    /\ IsCall("detect_and_clean_outliers")
    /\ call.applied = 2
    /\ ret # detect_and_clean_outliers(group)
    /\ detect_and_clean_outliers(ret) = ret

AllEqualPrices(g) == \A i, j \in DOMAIN g : g[i].price = g[j].price

\* C7: for a non-empty sample whose prices all equal p, and every decay
\* factor, calculate_ewma_median returns p.
C7_EqualPricesGivePrice ==
    (IsCall("calculate_ewma_median") /\ group # <<>> /\ AllEqualPrices(group)) =>
        ret = group[1].price

C7_Witness ==
    /\ IsCall("calculate_ewma_median")
    /\ Len(group) = 3
    /\ AllEqualPrices(group)
    /\ group[1].time > group[2].time
    /\ ret = group[1].price

TwoPoint(g) == Len(g) = 2 /\ g[1].time # g[2].time
RecentPrice(g) == IF g[1].time > g[2].time THEN g[1].price ELSE g[2].price

\* C8: on a two-trade sample with distinct timestamps, the weighted median
\* for a larger decay factor is at least as close to the more recent
\* trade's price as the weighted median for any smaller one.
C8_AlphaMovesTowardRecent ==
    (IsCall("calculate_ewma_median") /\ TwoPoint(group)) =>
        \A a1 \in Alphas :
            a1 < call.alpha =>
                Abs(ret - RecentPrice(group))
                    <= Abs(calculate_ewma_median(group, a1) - RecentPrice(group))

C8_Witness ==
    /\ IsCall("calculate_ewma_median")
    /\ TwoPoint(group)
    /\ group[1].price # group[2].price
    /\ call.alpha > 1
    /\ ret = RecentPrice(group)

SameCv(g1, g2) ==
    LET c1 == confidence_cv(Prices(g1))
        c2 == confidence_cv(Prices(g2))
    IN  c1 # NaN /\ c2 # NaN /\ c1[1] * c2[2] = c2[1] * c1[2]

SameLiquidity(g1, g2) ==
    Len(g1) * days_active(g2) = Len(g2) * days_active(g1)

\* cleaned samples cs and cl with the same cv and liquidity, cs the smaller
C9_Comparable(cs, cl) ==
    /\ cs # <<>>
    /\ Len(cs) < Len(cl)
    /\ SameLiquidity(cs, cl)
    /\ SameCv(cs, cl)

C1_WindowHours == [w \in WindowNames \ {"all"} |->
                      CASE w = "1h" -> 1
                        [] w = "24h" -> 24
                        [] w = "7d" -> 168
                        [] w = "30d" -> 720]

C1_InWindow(t, w) == w = "all" \/ TODAY - t.time <= C1_WindowHours[w]

C1_EmptyWindow ==
    \A i \in DOMAIN df :
        ~(df[i].item_id = call.item_id /\ C1_InWindow(df[i], call.window_name))

C1_ZeroZones ==
    [excellent |-> 0, good |-> 0, fair |-> 0, overpriced |-> 0, avoid |-> 0]

\* C1: for every item id, shop cost and window, when no trade of the item
\* falls in the window analyze_time_window returns has_data = false,
\* trade_count 0, median_price 0, ewma_median 0, roi -100, the recommendation
\* "NO DATA", confidence 0 and five zero zones, and the window's entry in
\* generate_frontend_json carries the same values.
C1_EmptyWindowSentinel ==
    /\ (IsCall("analyze_time_window") /\ C1_EmptyWindow) =>
        /\ ret.has_data = FALSE
        /\ ret.trade_count = 0
        /\ ret.median_price = 0
        /\ ret.ewma_median = 0
        /\ ret.roi = -100
        /\ ret.recommendation = <<"NO DATA">>
        /\ ret.confidence = 0
        /\ ret.zones = C1_ZeroZones
    /\ (IsCall("generate_frontend_json") /\ C1_EmptyWindow) =>
        /\ ret.has_data = FALSE
        /\ ret.trades = 0
        /\ ret.median_price = 0
        /\ ret.weighted_median = 0
        /\ ret.roi = -100
        /\ ret.recommendation = <<"NO DATA">>
        /\ ret.confidence = 0
        /\ ret.zones = C1_ZeroZones

\* an empty 24h window of an item that has an older trade, while another
\* item traded inside the window; the frontend entry has been written
C1_Witness ==
    /\ IsCall("generate_frontend_json")
    /\ call.window_name = "24h"
    /\ C1_EmptyWindow
    /\ \E i \in DOMAIN df : df[i].item_id = call.item_id
    /\ \E i \in DOMAIN df :
        df[i].item_id # call.item_id /\ C1_InWindow(df[i], "24h")
    /\ ret.has_data = FALSE

C2_Dead(shop_item) ==
    \A i \in DOMAIN group : group[i].item_id # shop_item.item_id

\* C2: calculate_comprehensive_roi emits one record per shop entry, and for
\* an entry whose item id matches no supplied trade the record is the dead
\* item sentinel, whatever the shop cost: has_trades false, the four ROI
\* fields -100, trade_count 0, total_volume 0 and every price statistic 0.
C2_DeadItemSentinel ==
    IsCall("calculate_comprehensive_roi") =>
        /\ Len(ret) = Len(all_shop_items)
        /\ \A i \in DOMAIN all_shop_items :
            C2_Dead(all_shop_items[i]) =>
                /\ ret[i].has_trades = FALSE
                /\ ret[i].item_id = all_shop_items[i].item_id
                /\ ret[i].shop_cost = all_shop_items[i].cost
                /\ ret[i].roi_avg = <<-100, 1>>
                /\ ret[i].roi_median = <<-100, 1>>
                /\ ret[i].roi_min = <<-100, 1>>
                /\ ret[i].roi_max = <<-100, 1>>
                /\ ret[i].trade_count = 0
                /\ ret[i].total_volume = 0
                /\ ret[i].avg_price = <<0, 1>>
                /\ ret[i].median_price = <<0, 1>>
                /\ ret[i].std_price = <<0, 1>>
                /\ ret[i].min_price = 0
                /\ ret[i].max_price = 0
                /\ ret[i].p25_price = <<0, 1>>
                /\ ret[i].p75_price = <<0, 1>>

\* a dead entry of cost 0 whose item has a trade older than the analysis
\* period, beside an entry with trades
C2_Witness ==
    /\ IsCall("calculate_comprehensive_roi")
    /\ \E i \in DOMAIN all_shop_items :
        /\ C2_Dead(all_shop_items[i])
        /\ all_shop_items[i].cost = 0
        /\ \E k \in DOMAIN df : df[k].item_id = all_shop_items[i].item_id
        /\ ret[i].has_trades = FALSE
    /\ \E i \in DOMAIN all_shop_items : ret[i].has_trades

C10_Filtered(shop_item) ==
    LET grp == SelectSeq(group, LAMBDA t : t.item_id = shop_item.item_id)
        Q1 == quantile4(Prices(grp), 1)
        Q3 == quantile4(Prices(grp), 3)
        kept == SelectSeq(grp, LAMBDA t : /\ Q1 - 3 * (Q3 - Q1) <= 4 * t.price
                                          /\ 4 * t.price <= Q3 + 3 * (Q3 - Q1))
    IN  SortInts(Prices(IF kept = <<>> THEN grp ELSE kept))

\* the median of a sorted sequence of prices, as a ratio
C10_Median(s) ==
    LET n == Len(s)
    IN  IF n % 2 = 1
        THEN <<s[(n + 1) \div 2], 1>>
        ELSE <<s[n \div 2] + s[(n \div 2) + 1], 2>>

\* C10: for every shop entry with matching trades and a positive cost,
\* median_price is the median of the item's outlier-filtered prices and
\* roi_median is (median_price - shop_cost) / shop_cost * 100; trades priced
\* 900, 950, 1000, 1050, 1100 at a cost of 1000 give median_price 1000 and
\* roi_median 0 with no trade removed.
C10_MedianAndRoi ==
    IsCall("calculate_comprehensive_roi") =>
        \A i \in DOMAIN all_shop_items :
            (~C2_Dead(all_shop_items[i]) /\ all_shop_items[i].cost > 0) =>
                LET s == C10_Filtered(all_shop_items[i])
                    m == C10_Median(s)
                    c == all_shop_items[i].cost
                IN  /\ ret[i].has_trades
                    /\ REq(ret[i].median_price, m)
                    /\ REq(ret[i].roi_median, <<(m[1] - c * m[2]) * 100, c * m[2]>>)
                    /\ (s = <<900, 950, 1000, 1050, 1100>> /\ c = 1000) =>
                        /\ REq(ret[i].median_price, <<1000, 1>>)
                        /\ REq(ret[i].roi_median, <<0, 1>>)
                        /\ ret[i].outliers_removed = 0

\* the five prices of the scenario, in an order that is not sorted
C10_Witness ==
    /\ IsCall("calculate_comprehensive_roi")
    /\ Prices(df) = <<1000, 900, 1100, 950, 1050>>
    /\ all_shop_items[1].cost = 1000
    /\ REq(ret[1].median_price, <<1000, 1>>)
    /\ REq(ret[1].roi_median, <<0, 1>>)
    /\ ret[1].outliers_removed = 0

(***************************************************************************)
(* Properties of identify_exponentially_worse_items.                       *)
(***************************************************************************)
\* the recent trades of the item of the i-th shop entry
C11_Trades(i) ==
    SelectSeq(group, LAMBDA t : t.item_id = all_shop_items[i].item_id)

C11_Criterion(i) ==
    \/ C11_Trades(i) = <<>>
    \/ /\ Len(C11_Trades(i)) >= 3
       /\ 4 * MaxSeq(Prices(C11_Trades(i))) < 3 * all_shop_items[i].cost
    \/ /\ Len(C11_Trades(i)) >= 5
       /\ FLess(roi_df[i].roi_median, <<-25, 1>>)
       /\ FLess(roi_df[i].break_even_probability, <<10, 1>>)

\* the rows returned are the records of the shop entries in S, each once
C11_Returns(S) ==
    /\ Len(ret) = Cardinality(S)
    /\ \A i \in S : \E k \in DOMAIN ret : ret[k].row = roi_df[i]
    /\ \A k \in DOMAIN ret : \E i \in S : ret[k].row = roi_df[i]

C12_OneCategory ==
    IsCall("identify_exponentially_worse_items") =>
        /\ \A k \in DOMAIN ret :
            /\ ret[k].category \in {"DEAD", "VERY BAD", "EXTREMELY BAD"}
            /\ ret[k].category = "DEAD" <=> ret[k].row.trade_count = 0
            /\ ret[k].category = "VERY BAD" <=>
                /\ ret[k].row.trade_count > 0
                /\ 5 * ret[k].row.break_even_probability[2]
                     < ret[k].row.break_even_probability[1]
        /\ \A i \in DOMAIN all_shop_items :
            (C11_Trades(i) = <<>> /\ all_shop_items[i].cost = 500) =>
                \E k \in DOMAIN ret :
                    /\ ret[k].row = roi_df[i]
                    /\ ret[k].row.has_trades = FALSE
                    /\ ret[k].row.roi_median = <<-100, 1>>
                    /\ ret[k].category = "DEAD"

\* the dead entry of cost 500 beside an entry of which one trade in eleven
\* is above the cost: "DEAD" and "VERY BAD"
C12_Witness ==
    /\ IsCall("identify_exponentially_worse_items")
    /\ Len(group) = 11
    /\ Len(ret) = 2
    /\ \E k \in DOMAIN ret :
        ret[k].row.shop_cost = 500 /\ ret[k].category = "DEAD"
    /\ \E k \in DOMAIN ret :
        ret[k].row.shop_cost = 100 /\ ret[k].category = "VERY BAD"

(***************************************************************************)
(* Properties of detect_game_update_impact.                                *)
(***************************************************************************)
\* the (item_id, item_name) pairs of the recent trades whose name matches
\* the keyword and that were traded both before and from the update on
C13_Keys ==
    {<<group[i].item_id, group[i].item_name>> : i \in
        {i \in DOMAIN group :
            /\ str_contains(group[i].item_name, KEYWORD)
            /\ \E j \in DOMAIN group :
                /\ group[j].item_id = group[i].item_id
                /\ group[j].item_name = group[i].item_name
                /\ (group[j].time < GAME_UPDATE_DATE) # (group[i].time < GAME_UPDATE_DATE)}}

C13_Pre(key) ==
    SelectSeq(group, LAMBDA t : /\ t.item_id = key[1] /\ t.item_name = key[2]
                                /\ t.time < GAME_UPDATE_DATE)

C13_Post(key) ==
    SelectSeq(group, LAMBDA t : /\ t.item_id = key[1] /\ t.item_name = key[2]
                                /\ t.time >= GAME_UPDATE_DATE)

\* one row per tracked item
C13_OneRowPerKey ==
    /\ Len(ret) = Cardinality(C13_Keys)
    /\ \A key \in C13_Keys :
        \E k \in DOMAIN ret : ret[k].item_id = key[1] /\ ret[k].item_name = key[2]

C13_Row(key) ==
    ret[CHOOSE k \in DOMAIN ret : ret[k].item_id = key[1] /\ ret[k].item_name = key[2]]

\* the label of a change of r percent
C13_Label(r) ==
    IF FLess(<<20, 1>>, RAbs(r)) THEN "HIGH"
    ELSE IF FLess(<<10, 1>>, RAbs(r)) THEN "MEDIUM"
    ELSE "LOW"

\* r = (b - a) / a * 100 for the means a and b
C13_IsChange(r, a, b) == r[1] * a[1] * b[2] = 100 * (b[1] * a[2] - a[1] * b[2]) * r[2]

\* C13 as stated: for every tracked item with non-empty pre- and post-update
\* groups, price_change_pct = (post mean price - pre mean price) / pre mean
\* price * 100 for the mean prices of the two groups, and significance is
\* "HIGH" when |price_change_pct| > 20, "MEDIUM" when 10 < |price_change_pct|
\* <= 20 and "LOW" otherwise; pre mean 200 and post mean 400 give +100 and
\* "HIGH".
C13_ChangeOfGroupMeans ==
    IsCall("detect_game_update_impact") =>
        /\ C13_OneRowPerKey
        /\ \A key \in C13_Keys :
            /\ C13_IsChange(C13_Row(key).price_change_pct,
                            Mean(Prices(C13_Pre(key))), Mean(Prices(C13_Post(key))))
            /\ C13_Row(key).significance = C13_Label(C13_Row(key).price_change_pct)
            /\ (/\ REq(Mean(Prices(C13_Pre(key))), <<200, 1>>)
                /\ REq(Mean(Prices(C13_Post(key))), <<400, 1>>)) =>
                    /\ REq(C13_Row(key).price_change_pct, <<100, 1>>)
                    /\ C13_Row(key).significance = "HIGH"

C13_CleanMean(trades) == Mean(Prices(detect_and_clean_outliers(trades)))

\* C13: for every tracked item with non-empty pre- and post-update groups,
\* with the mean prices taken after the outlier filter has been applied to
\* each group, price_change_pct = (post mean - pre mean) / pre mean * 100
\* when the pre mean is positive and 0 when it is not, and significance is
\* "HIGH" when |price_change_pct| > 20, "MEDIUM" when 10 < |price_change_pct|
\* <= 20 and "LOW" otherwise; filtered means of 200 before and 400 after
\* give +100 and "HIGH".
C13_ChangeOfCleanMeans ==
    IsCall("detect_game_update_impact") =>
        /\ C13_OneRowPerKey
        /\ \A key \in C13_Keys :
            /\ C13_CleanMean(C13_Pre(key))[1] > 0 =>
                C13_IsChange(C13_Row(key).price_change_pct,
                             C13_CleanMean(C13_Pre(key)), C13_CleanMean(C13_Post(key)))
            /\ C13_CleanMean(C13_Pre(key))[1] <= 0 =>
                C13_Row(key).price_change_pct = <<0, 1>>
            /\ C13_Row(key).significance = C13_Label(C13_Row(key).price_change_pct)
            /\ (/\ REq(C13_CleanMean(C13_Pre(key)), <<200, 1>>)
                /\ REq(C13_CleanMean(C13_Post(key)), <<400, 1>>)) =>
                    /\ REq(C13_Row(key).price_change_pct, <<100, 1>>)
                    /\ C13_Row(key).significance = "HIGH"

\* four trades at 200 and one at 1000 before the update, one at 400 after:
\* the filter drops the trade at 1000 and the change is +100, "HIGH", while
\* the group means 360 and 400 would give 11.1, "MEDIUM"
C13_Witness ==
    /\ IsCall("detect_game_update_impact")
    /\ Prices(group) = <<200, 200, 200, 200, 1000, 400>>
    /\ Len(ret) = 1
    /\ REq(ret[1].price_change_pct, <<100, 1>>)
    /\ ret[1].significance = "HIGH"

(***************************************************************************)
(* Properties of the numeric fields of calculate_comprehensive_roi.        *)
(***************************************************************************)
C14_FloatFields ==
    {"avg_price", "median_price", "std_price", "p25_price", "p75_price",
     "roi_avg", "roi_median", "roi_min", "roi_max", "volatility_cv",
     "price_trend_overall", "price_trend_q1_q2", "price_trend_q2_q3",
     "price_trend_q3_q4", "liquidity_score", "break_even_probability",
     "avg_loss_pct"}

\* C14: for every shop entry with at least one matching trade, a single
\* trade and trades of equal price included, every numeric field of the
\* record of calculate_comprehensive_roi (std_price, volatility_cv, the
\* trends, liquidity_score, break_even_probability, avg_loss_pct and the ROI
\* fields among them) is a finite number, never NaN.
C14_NumericFieldsFinite ==
    IsCall("calculate_comprehensive_roi") =>
        \A i \in DOMAIN all_shop_items :
            ~C2_Dead(all_shop_items[i]) =>
                \A f \in C14_FloatFields : IsFinite(ret[i][f])

\* C15: a shop cost of 0 or less never divides by zero and counts as an ROI
\* of -100 wherever an ROI is computed: analyze_time_window returns roi =
\* -100 and calculate_comprehensive_roi returns roi_avg = roi_median =
\* roi_min = roi_max = -100.
C15_NonPositiveCostIsTotalLoss ==
    /\ (IsCall("analyze_time_window") /\ call.shop_cost <= 0 /\ ret.has_data) =>
        ret.roi = <<-100, 1>>
    /\ IsCall("calculate_comprehensive_roi") =>
        \A i \in DOMAIN all_shop_items :
            all_shop_items[i].cost <= 0 =>
                /\ ret[i].roi_avg = <<-100, 1>>
                /\ ret[i].roi_median = <<-100, 1>>
                /\ ret[i].roi_min = <<-100, 1>>
                /\ ret[i].roi_max = <<-100, 1>>

C16_StampOfLast ==
    IF fetcher.loc = "throttled" THEN fetcher.stamps[1]
    ELSE fetcher.stamps[Len(fetcher.stamps)]

C17_Weight(i, n, a) == Pow(ALPHA_DEN - a, n - 1 - i) * Pow(ALPHA_DEN, i)

\* the weight of the trades priced v or less, ps being in time order
C17_WeightUpTo(ps, a, v) ==
    SumSeq([i \in DOMAIN ps |-> IF ps[i] <= v THEN C17_Weight(i - 1, Len(ps), a) ELSE 0])

\* the normalized weight accumulated in ascending price order has reached
\* 0.5 at the price v
C17_Crossed(ps, a, v) ==
    2 * C17_WeightUpTo(ps, a, v) >= C17_WeightUpTo(ps, a, MaxSeq(ps))

\* v is the price at the first index, in ascending price order, at which the
\* accumulated weight is at least 0.5
C17_FirstCrossing(ps, a, v) ==
    /\ \E i \in DOMAIN ps : ps[i] = v
    /\ C17_Crossed(ps, a, v)
    /\ \A i \in DOMAIN ps : ps[i] < v => ~C17_Crossed(ps, a, ps[i])

\* C17: calculate_ewma_median returns 0 for an empty sample; otherwise the
\* i-th oldest of the n trades (index 0 the oldest) weighs
\* (1 - alpha)^(n - 1 - i), the weights are normalized, and the result is
\* the price at the first index in ascending price order at which the
\* accumulated weight is at least 0.5: that index lies inside the sample
\* and the result is a price occurring in the sample.
C17_WeightedMedianIsFirstCrossing ==
    IsCall("calculate_ewma_median") =>
        /\ group = <<>> => ret = 0
        /\ group # <<>> =>
            /\ ret # IndexError
            /\ C17_FirstCrossing(Prices(sort_values(group)), call.alpha, ret)

\* three trades of distinct prices, not in time order in the file: the
\* result is the most recent price and not the middle one
C17_Witness ==
    /\ IsCall("calculate_ewma_median")
    /\ Len(group) = 3
    /\ group[1].time > group[2].time
    /\ group[2].time > group[3].time
    /\ group[1].price > group[2].price
    /\ group[2].price < group[3].price
    /\ group[3].price < group[1].price
    /\ ret = group[1].price

(***************************************************************************)
(* Properties of analyze_time_window.                                      *)
(***************************************************************************)
C18_Label == ret.recommendation[1]

C18_ZoneLabels ==
    {"BUY NOW - Excellent price (<", "BUY if <", "FAIR if <", "WAIT - Overpriced (fair <"}

\* the label the ladder gives, its conditions tried in order
C18_Ladder ==
    IF RLess(ret.roi, <<-15, 1>>) THEN "AVOID - Loss %"
    ELSE IF RLess(ret.roi, <<0, 1>>) THEN "MARGINAL - Break even difficult"
    ELSE IF 16 * ret.ewma_median <= ret.zones.excellent THEN "BUY NOW - Excellent price (<"
    ELSE IF 16 * ret.ewma_median <= ret.zones.good THEN "BUY if <"
    ELSE IF 16 * ret.ewma_median <= ret.zones.fair THEN "FAIR if <"
    ELSE "WAIT - Overpriced (fair <"

\* C18: for a window with data the recommendation of analyze_time_window is
\* the first match of the ladder ROI < -15: AVOID; ROI < 0: MARGINAL;
\* weighted median <= excellent: BUY NOW; <= good: BUY if; <= fair: FAIR if;
\* otherwise WAIT.  Exactly one label is given, and a negative ROI is never
\* labelled BUY NOW, BUY if, FAIR if or WAIT.
C18_FirstMatchWins ==
    (IsCall("analyze_time_window") /\ ret.has_data) =>
        /\ C18_Label = C18_Ladder
        /\ C18_Label \in C18_ZoneLabels \cup {"AVOID - Loss %", "MARGINAL - Break even difficult"}
        /\ RLess(ret.roi, <<0, 1>>) => C18_Label \notin C18_ZoneLabels

\* a weighted median of 9 above the excellent threshold 8.75 and below the
\* good threshold 9.6875, at a cost of 8: "BUY if"
C18_Witness ==
    /\ IsCall("analyze_time_window")
    /\ ret.has_data
    /\ call.shop_cost = 8
    /\ ret.ewma_median = 9
    /\ 16 * ret.ewma_median > ret.zones.excellent
    /\ C18_Label = "BUY if <"

\* the rows of self.df the call is about: those of the item, and for a
\* window with a duration those at most that long before TODAY
C19_Selected ==
    SelectSeq(df, LAMBDA t : /\ t.item_id = call.item_id
                             /\ C1_InWindow(t, call.window_name))

\* C19: analyze_time_window analyses, for a window with a duration, exactly
\* the item's trades with timestamp >= TODAY - duration (the cutoff included,
\* no upper bound) and for "all" every trade of the item; trades of other
\* items never enter, and trade_count is the number of trades selected,
\* counted before the outlier filter.
C19_WindowSelection ==
    IsCall("analyze_time_window") =>
        /\ ret.has_data = (C19_Selected # <<>>)
        /\ ret.trade_count = Len(C19_Selected)
        /\ ret = analyze_trades(C19_Selected, call.shop_cost)
        /\ ret.has_data =>
            /\ \E i \in DOMAIN C19_Selected : C19_Selected[i].price = ret.min_price
            /\ \E i \in DOMAIN C19_Selected : C19_Selected[i].price = ret.max_price

\* the 24h window of an item traded exactly at the cutoff and one hour
\* before it, while the other item traded inside the window
C19_Witness ==
    /\ IsCall("analyze_time_window")
    /\ call.window_name = "24h"
    /\ \E i \in DOMAIN df : df[i].item_id = call.item_id /\ df[i].time = TODAY - 24
    /\ \E i \in DOMAIN df : df[i].item_id = call.item_id /\ df[i].time = TODAY - 25
    /\ \E i \in DOMAIN df : df[i].item_id # call.item_id /\ df[i].time >= TODAY - 24
    /\ ret.trade_count = 1

(***************************************************************************)
(* Properties of the price trend of calculate_comprehensive_roi.           *)
(***************************************************************************)
\* the filtered prices of the item of the i-th shop entry, in time order
C20_Sample(i) == Prices(sort_values(clean_or_original(C11_Trades(i))))

\* the mean price of the len records of ps after the first skip
C20_ChunkMean(ps, skip, len) == Mean([j \in 1..len |-> ps[skip + j]])

\* r is the percentage change from the mean a to the mean b, 0 when a is
\* not positive
C20_Change(r, a, b) ==
    IF a[1] > 0 THEN C13_IsChange(r, a, b) ELSE r = <<0, 1>>

\* the four trends of the record are those of the chunks of ps that start
\* every c records, the last chunk having last records
C20_TrendsOf(rec, ps, c, last) ==
    /\ C20_Change(rec.price_trend_q1_q2,
                  C20_ChunkMean(ps, 0, c), C20_ChunkMean(ps, c, c))
    /\ C20_Change(rec.price_trend_q2_q3,
                  C20_ChunkMean(ps, c, c), C20_ChunkMean(ps, 2 * c, c))
    /\ C20_Change(rec.price_trend_q3_q4,
                  C20_ChunkMean(ps, 2 * c, c), C20_ChunkMean(ps, 3 * c, last))
    /\ C20_Change(rec.price_trend_overall,
                  C20_ChunkMean(ps, 0, c), C20_ChunkMean(ps, 3 * c, last))

\* C20 as stated: for a filtered sample of n >= 4 records sorted by time,
\* the sample is split into four equal-size contiguous chunks that together
\* cover every record exactly once; the three sub-trends are the percentage
\* changes of mean price between consecutive chunks and the overall trend
\* is the percentage change from the first to the last chunk.
C20_FourEqualChunks ==
    IsCall("calculate_comprehensive_roi") =>
        \A i \in DOMAIN all_shop_items :
            Len(C20_Sample(i)) >= 4 =>
                \E c \in 1..Len(C20_Sample(i)) :
                    /\ 4 * c = Len(C20_Sample(i))
                    /\ C20_TrendsOf(ret[i], C20_Sample(i), c, c)

\* C20: for a filtered sample of n >= 4 records sorted by time, the sample
\* is split into four contiguous chunks that together cover every record
\* exactly once: the first three of floor(n / 4) records each and the last
\* of the remaining n - 3 * floor(n / 4); the three sub-trends are the
\* percentage changes of mean price between consecutive chunks and the
\* overall trend is the percentage change from the first to the last chunk,
\* a change being 0 when the mean it starts from is not positive.
C20_ThreeQuartersAndRest ==
    IsCall("calculate_comprehensive_roi") =>
        \A i \in DOMAIN all_shop_items :
            Len(C20_Sample(i)) >= 4 =>
                C20_TrendsOf(ret[i], C20_Sample(i), Len(C20_Sample(i)) \div 4,
                             Len(C20_Sample(i)) - 3 * (Len(C20_Sample(i)) \div 4))

\* five records, none filtered out, given out of time order: the last chunk
\* holds the two most recent, of different prices
C20_Witness ==
    /\ IsCall("calculate_comprehensive_roi")
    /\ Len(C20_Sample(1)) = 5
    /\ df[1].time > df[2].time
    /\ C20_Sample(1)[4] # C20_Sample(1)[5]
    /\ C20_Sample(1)[3] > 0
    /\ ret[1].price_trend_q3_q4 # <<0, 1>>
    /\ C20_Change(ret[1].price_trend_q3_q4, <<C20_Sample(1)[3], 1>>,
                  <<C20_Sample(1)[4] + C20_Sample(1)[5], 2>>)

\* the three sub-trends of the record are 0
C21_SubTrendsZero(rec) ==
    /\ REq(rec.price_trend_q1_q2, <<0, 1>>)
    /\ REq(rec.price_trend_q2_q3, <<0, 1>>)
    /\ REq(rec.price_trend_q3_q4, <<0, 1>>)

\* the overall trend is the change from the mean of the first h records of
\* ps to the mean of the others
C21_HalvesTrend(rec, ps, h) ==
    C20_Change(rec.price_trend_overall,
               C20_ChunkMean(ps, 0, h), C20_ChunkMean(ps, h, Len(ps) - h))

C21_TrendsFinite(rec) ==
    /\ IsFinite(rec.price_trend_q1_q2)
    /\ IsFinite(rec.price_trend_q2_q3)
    /\ IsFinite(rec.price_trend_q3_q4)
    /\ IsFinite(rec.price_trend_overall)

\* C21: the trend splitting of calculate_comprehensive_roi never averages
\* an empty chunk: for every filtered sample of 1, 2 or 3 records the halves
\* split is used, the three sub-trends are 0 and the overall trend is
\* defined (0 for one record); for every sample of 4 or more records each
\* of the four chunks holds at least one record.
C21_NoEmptyChunk ==
    IsCall("calculate_comprehensive_roi") =>
        \A i \in DOMAIN all_shop_items :
            /\ Len(C20_Sample(i)) >= 1 => C21_TrendsFinite(ret[i])
            /\ Len(C20_Sample(i)) = 1 =>
                /\ C21_SubTrendsZero(ret[i])
                /\ REq(ret[i].price_trend_overall, <<0, 1>>)
            /\ Len(C20_Sample(i)) \in {2, 3} =>
                /\ C21_SubTrendsZero(ret[i])
                /\ C21_HalvesTrend(ret[i], C20_Sample(i), Len(C20_Sample(i)) \div 2)
            /\ Len(C20_Sample(i)) >= 4 =>
                /\ Len(C20_Sample(i)) \div 4 >= 1
                /\ Len(C20_Sample(i)) - 3 * (Len(C20_Sample(i)) \div 4) >= 1

\* three records whose price rises from the first to the mean of the other
\* two: the sub-trends are 0 and the overall trend is not
C21_Witness ==
    /\ IsCall("calculate_comprehensive_roi")
    /\ Len(C20_Sample(1)) = 3
    /\ C20_Sample(1)[1] = 10
    /\ C20_Sample(1)[2] + C20_Sample(1)[3] = 50
    /\ C21_SubTrendsZero(ret[1])
    /\ REq(ret[1].price_trend_overall, <<150, 1>>)

(***************************************************************************)
(* Properties of the records of calculate_comprehensive_roi.               *)
(***************************************************************************)
\* the filtered prices of the i-th shop entry's item that satisfy Test
C22_Prices(i, Test(_)) == SelectSeq(C20_Sample(i), Test)

\* r is the percentage by which the mean of the prices ps differs from c
C22_Shortfall(r, ps, c) ==
    r[1] * c * Len(ps) = 100 * (SumSeq(ps) - c * Len(ps)) * r[2]

\* C22: for every shop entry with trades, break_even_probability is 100
\* times the number of filtered trades priced strictly above the shop cost
\* over the number of filtered trades, so it lies in [0, 100]; avg_loss_pct
\* is the percentage shortfall of the mean price of the filtered trades
\* priced strictly below the shop cost and 0 when there is none; a trade
\* priced exactly at the shop cost counts in neither.
C22_BreakEvenAndLoss ==
    IsCall("calculate_comprehensive_roi") =>
        \A i \in DOMAIN all_shop_items :
            ~C2_Dead(all_shop_items[i]) =>
                /\ REq(ret[i].break_even_probability,
                       <<100 * Len(C22_Prices(i, LAMBDA x : x > all_shop_items[i].cost)),
                         Len(C20_Sample(i))>>)
                /\ ~FLess(ret[i].break_even_probability, <<0, 1>>)
                /\ ~FLess(<<100, 1>>, ret[i].break_even_probability)
                /\ IF C22_Prices(i, LAMBDA x : x < all_shop_items[i].cost) = <<>>
                   THEN REq(ret[i].avg_loss_pct, <<0, 1>>)
                   ELSE C22_Shortfall(ret[i].avg_loss_pct,
                                      C22_Prices(i, LAMBDA x : x < all_shop_items[i].cost),
                                      all_shop_items[i].cost)

\* trades at 900, 1000 and 1100 at a cost of 1000: one of three is above
\* the cost, and the one trade below it lost 10 percent
C22_Witness ==
    /\ IsCall("calculate_comprehensive_roi")
    /\ all_shop_items[1].cost = 1000
    /\ Len(C20_Sample(1)) = 3
    /\ \E k \in 1..3 : C20_Sample(1)[k] = 1000
    /\ REq(ret[1].break_even_probability, <<100, 3>>)
    /\ REq(ret[1].avg_loss_pct, <<-10, 1>>)

C23_PriceStatistics ==
    {"avg_price", "median_price", "std_price", "min_price", "max_price",
     "p25_price", "p75_price", "trade_count", "outliers_removed",
     "total_volume", "has_trades"}

\* r is the ROI of the price m at the cost c
C23_RoiOf(r, m, c) == r[1] * c * m[2] = 100 * (m[1] - c * m[2]) * r[2]

\* C23: calculate_comprehensive_roi emits exactly one record per shop entry,
\* in catalog order, shard entries then token entries; an item id listed
\* under both currencies yields two records with the same price statistics
\* and has_trades, each with its own currency and its ROI computed from its
\* own cost, and the record of an entry does not depend on the other
\* entries.
C23_OneRecordPerEntry ==
    IsCall("calculate_comprehensive_roi") =>
        /\ Len(ret) = Len(all_shop_items)
        /\ \A i \in DOMAIN all_shop_items :
            /\ ret[i].item_id = all_shop_items[i].item_id
            /\ ret[i].currency = all_shop_items[i].currency
            /\ ret[i].shop_cost = all_shop_items[i].cost
            /\ (ret[i].has_trades /\ all_shop_items[i].cost > 0) =>
                /\ C23_RoiOf(ret[i].roi_avg, ret[i].avg_price, ret[i].shop_cost)
                /\ C23_RoiOf(ret[i].roi_median, ret[i].median_price, ret[i].shop_cost)
                /\ C23_RoiOf(ret[i].roi_min, <<ret[i].min_price, 1>>, ret[i].shop_cost)
                /\ C23_RoiOf(ret[i].roi_max, <<ret[i].max_price, 1>>, ret[i].shop_cost)
            /\ ret[i] = calculate_comprehensive_roi(group, <<all_shop_items[i]>>)[1]
            /\ \A j \in DOMAIN all_shop_items :
                all_shop_items[j].item_id = all_shop_items[i].item_id =>
                    \A f \in C23_PriceStatistics : ret[j][f] = ret[i][f]

\* an item with recent trades sold for shards at 10 and for tokens at 4: two
\* records with the same mean price, their own currencies and different
\* ROIs
C23_Witness ==
    /\ IsCall("calculate_comprehensive_roi")
    /\ \E i, j \in DOMAIN all_shop_items :
        /\ i < j
        /\ all_shop_items[i].item_id = all_shop_items[j].item_id
        /\ all_shop_items[i].cost = 10
        /\ all_shop_items[j].cost = 4
        /\ ret[i].has_trades
        /\ ret[i].currency = "Blood Shards"
        /\ ret[j].currency = "Blood Synthesis Tokens"
        /\ ret[i].avg_price = ret[j].avg_price
        /\ ret[i].roi_avg # ret[j].roi_avg

(***************************************************************************)
(* Properties of the report on the aggregate.                              *)
(***************************************************************************)
\* C24: in the dict of analyze_roi_distribution every active entry is counted
\* in exactly one of the six bands of median ROI, so the six counts sum to
\* active_items, and total_items = active_items + dead_items.
C24_BandsPartitionActive ==
    IsCall("analyze_roi_distribution") =>
        /\ ret.profit_categories.high_profit + ret.profit_categories.good_profit
           + ret.profit_categories.modest_profit + ret.profit_categories.break_even
           + ret.profit_categories.small_loss + ret.profit_categories.large_loss
           = ret.active_items
        /\ ret.total_items = ret.active_items + ret.dead_items

(***************************************************************************)
(* Properties of the profitability label of detect_game_update_impact.     *)
(***************************************************************************)
\* the shop cost shown for an item: the cost of its first shop entry
C25_Cost(item_id) ==
    all_shop_items[CHOOSE k \in DOMAIN all_shop_items :
        /\ all_shop_items[k].item_id = item_id
        /\ \A j \in 1..(k - 1) : all_shop_items[j].item_id # item_id].cost

C25_HasCost(item_id) == \E k \in DOMAIN all_shop_items : all_shop_items[k].item_id = item_id

C25_Label(was, is) ==
    IF ~was /\ is THEN "NOW PROFITABLE"
    ELSE IF was /\ ~is THEN "NO LONGER PROFITABLE"
    ELSE IF was /\ is THEN "STILL PROFITABLE"
    ELSE "STILL UNPROFITABLE"

\* C25: detect_game_update_impact has a record for a tracked item only when
\* the item has trades before the update (time < GAME_UPDATE_DATE) and
\* trades from it on (time >= GAME_UPDATE_DATE), and for an item with a shop
\* cost the label is decided by whether the mean price before exceeds the
\* cost and whether the mean price after does: (no, yes) NOW PROFITABLE,
\* (yes, no) NO LONGER PROFITABLE, (yes, yes) STILL PROFITABLE, (no, no)
\* STILL UNPROFITABLE.  The means are those the record reports, of the
\* prices the outlier filter keeps.
C25_ProfitabilityLabel ==
    IsCall("detect_game_update_impact") =>
        /\ \A k \in DOMAIN ret :
            /\ C13_Pre(<<ret[k].item_id, ret[k].item_name>>) # <<>>
            /\ C13_Post(<<ret[k].item_id, ret[k].item_name>>) # <<>>
        /\ C13_OneRowPerKey
        /\ \A key \in C13_Keys :
            /\ REq(C13_Row(key).pre_update_avg_price, C13_CleanMean(C13_Pre(key)))
            /\ REq(C13_Row(key).post_update_avg_price, C13_CleanMean(C13_Post(key)))
            /\ C25_HasCost(key[1]) =>
                C13_Row(key).profitability_status =
                    C25_Label(C13_CleanMean(C13_Pre(key))[1]
                                  > C25_Cost(key[1]) * C13_CleanMean(C13_Pre(key))[2],
                              C13_CleanMean(C13_Post(key))[1]
                                  > C25_Cost(key[1]) * C13_CleanMean(C13_Post(key))[2])

\* trades at 200 and 220 before the update average the cost of 210 and the
\* trade at 240 after it exceeds it: the item is now profitable
C25_Witness ==
    /\ IsCall("detect_game_update_impact")
    /\ Prices(group) = <<200, 220, 240>>
    /\ Len(ret) = 1
    /\ ret[1].shop_cost = <<210>>
    /\ REq(ret[1].pre_update_avg_price, <<210, 1>>)
    /\ ret[1].profitability_status = "NOW PROFITABLE"

(***************************************************************************)
(* Properties of the outlier filter's callers.                             *)
(***************************************************************************)
\* the records of g priced within [Q1 - 3 * IQR, Q3 + 3 * IQR]
C26_WithinBounds(g) ==
    {i \in DOMAIN g :
        /\ 4 * g[i].price >= quantile4(Prices(g), 1)
                                - 3 * (quantile4(Prices(g), 3) - quantile4(Prices(g), 1))
        /\ 4 * g[i].price <= quantile4(Prices(g), 3)
                                + 3 * (quantile4(Prices(g), 3) - quantile4(Prices(g), 1))}

\* C26: detect_and_clean_outliers never empties a non-empty sample: at least
\* one record lies within [Q1 - 3 * IQR, Q3 + 3 * IQR], the output is not
\* empty, and the callers' replacement of an empty output by the unfiltered
\* sample never happens; the same holds when the filter is applied again
\* to its output.
C26_FilterNeverEmpties ==
    (IsCall("detect_and_clean_outliers") /\ group # <<>>) =>
        /\ C26_WithinBounds(group) # {}
        /\ Len(ret) > 0
        /\ call.applied = 1 =>
            /\ Len(ret) = Cardinality(C26_WithinBounds(group))
            /\ or_original(ret, group) = ret
            /\ clean_or_original(group) = ret

\* a sample the filter shortens without emptying it
C26_Witness ==
    /\ IsCall("detect_and_clean_outliers")
    /\ call.applied = 1
    /\ Len(ret) > 0
    /\ Len(ret) < Len(group)

(***************************************************************************)
(* Properties of the time windows of one shop entry.                       *)
(***************************************************************************)
\* the number of trades analyze_time_window selects for the entry being
\* analysed, in the window of the given position
C27_Count(k) ==
    Len(window_trades(df, call.item_id, TIME_WINDOWS[WindowOrder[k]]))

\* C27: the windows are nested: for every entry and every set of trades the
\* trade counts of the windows 1h, 24h, 7d, 30d and all do not decrease, so
\* has_data in a window implies has_data in every longer one, and
\* has_trades in the entry's record of the 90-day aggregate implies
\* has_data in the window 'all'.
C27_WindowsNested ==
    IsCall("analyze_time_window") =>
        /\ ret.trade_count = C27_Count(pc.window)
        /\ ret.has_data = (ret.trade_count > 0)
        /\ \A k \in (pc.window + 1)..Len(WindowOrder) :
            /\ ret.trade_count <= C27_Count(k)
            /\ ret.has_data => C27_Count(k) > 0
        /\ (call.window_name = "all" /\ roi_df[pc.idx].has_trades) => ret.has_data

\* an entry with fewer trades in the last 24 hours than in all, and trades
\* in the aggregate
C27_Witness ==
    /\ IsCall("analyze_time_window")
    /\ call.window_name = "24h"
    /\ ret.has_data
    /\ ret.trade_count < C27_Count(5)
    /\ roi_df[pc.idx].has_trades

\* C28: in every result of analyze_time_window with has_data the zones are
\* taken from the filtered sample the other statistics are taken from:
\* zones.excellent = q1 and zones.overpriced = q3, the filter applied again
\* inside calculate_purchase_zones removing no further record.
C28_ZonesFromReportedQuartiles ==
    (IsCall("analyze_time_window") /\ ret.has_data) =>
        /\ ret.zones.excellent = 4 * ret.q1
        /\ ret.zones.overpriced = 4 * ret.q3

(***************************************************************************)
(* Properties of the buckets of generate_investment_recommendations.       *)
(***************************************************************************)
\* the shop entries of the rows of a bucket
C29_Entries(bucket) ==
    {<<bucket[k].row.item_id, bucket[k].row.currency, bucket[k].row.shop_cost>> :
        k \in DOMAIN bucket}

\* C29: for every catalog with positive shop costs no entry of the bucket
\* avoid is also in safe_bets, high_risk_high_reward or
\* undervalued_trending, because an entry with trades whose median ROI is
\* positive breaks even in at least 50 of 100 trades.
C29_AvoidDisjoint ==
    (/\ IsCall("generate_investment_recommendations")
     /\ \A i \in DOMAIN all_shop_items : all_shop_items[i].cost > 0) =>
        /\ \A i \in DOMAIN roi_df :
            (roi_df[i].has_trades /\ FLess(<<0, 1>>, roi_df[i].roi_median)) =>
                FGeq(roi_df[i].break_even_probability, <<50, 1>>)
        /\ C29_Entries(ret.avoid) \cap C29_Entries(ret.safe_bets) = {}
        /\ C29_Entries(ret.avoid) \cap C29_Entries(ret.high_risk_high_reward) = {}
        /\ C29_Entries(ret.avoid) \cap C29_Entries(ret.undervalued_trending) = {}

\* one entry of an item to avoid while the other is in the three other
\* buckets
C29_Witness ==
    /\ IsCall("generate_investment_recommendations")
    /\ \A i \in DOMAIN all_shop_items : all_shop_items[i].cost > 0
    /\ Len(ret.avoid) > 0
    /\ Len(ret.safe_bets) > 0
    /\ Len(ret.high_risk_high_reward) > 0
    /\ Len(ret.undervalued_trending) > 0

(***************************************************************************)
(* Properties of the page loop of fetch_item_trades.                       *)
(***************************************************************************)
\* the trades of the pages 1..n of an item
C30_Pages(item, n) == [k \in 1..n |-> <<item, k>>]

\* in a call of fetch_item_trades: a request per page, each page after the
\* one before, and every page received so far accumulated
C30_InCall ==
    fetcher.loc \in {"while", "throttled"} =>
        /\ fetcher.requests = fetcher.page - 1
        /\ fetcher.requests <= fetcher.max_pages
        /\ fetcher.loc = "throttled" => fetcher.requests < fetcher.max_pages
        /\ fetcher.all_trades = C30_Pages(fetcher.item, fetcher.page - 1)

\* the call that returned last: at most max_pages requests, and the pages
\* received before the request that ended the loop are all returned
C30_Returned ==
    fetcher.returned # <<>> =>
        /\ fetcher.returned[1].requests >= 1
        /\ fetcher.returned[1].requests <= fetcher.max_pages
        /\ fetcher.returned[1].trades
               = C30_Pages(fetcher.item - 1, Len(fetcher.returned[1].trades))
        /\ Len(fetcher.returned[1].trades) >= fetcher.returned[1].requests - 1
        /\ Len(fetcher.returned[1].trades) <= fetcher.returned[1].requests
        /\ Len(fetcher.returned[1].trades) = fetcher.returned[1].requests =>
               fetcher.returned[1].requests = fetcher.max_pages

\* C30: fetch_item_trades of both fetch scripts ends after at most max_pages
\* requests per item: the page only increases, the loop stops at the first
\* response that is not a 200, has no trades or raises a request exception
\* (in fetch_top_items also at the first page without a trade newer than
\* the cutoff), and the trades of the pages before are returned; the run
\* over all the items ends.
C30_PagesBoundedAndReturned ==
    /\ [](fetcher.script \in Scripts => (C30_InCall /\ C30_Returned))
    /\ <>(fetcher.loc = "done")

\* fetch_top_items called with max_pages = 2: the first page is kept, the
\* second ends the loop, and the first page is what the call returns
C30_Witness ==
    /\ fetcher.script = "fetch_top_items"
    /\ fetcher.max_pages = 2
    /\ fetcher.loc = "done"
    /\ fetcher.returned = <<[trades |-> <<<<fetcher.items, 1>>>>, requests |-> 2]>>

====
